---- MODULE Spec2Model ----
(***************************************************************************)
(* A model of the CRM server: the Express routes of server/index.ts, the   *)
(* handlers of server/routes/{customers,leads,auth}.ts, the token          *)
(* middleware, and the sql.js tables behind customerDB, leadDB and authDB. *)
(*                                                                         *)
(* Node runs one handler at a time and switches handlers only where a      *)
(* handler awaits real I/O (fs.writeFile in saveDatabase/save, fs.mkdir,   *)
(* bcrypt).  An await of an already-settled promise (ensureInitialized     *)
(* once the database is loaded, a SELECT) only yields to the microtask     *)
(* queue, so the code between two I/O awaits is one atomic action here.    *)
(* A handler whose last await is the saveDatabase() of its one mutation has *)
(* fixed its response before that await and does nothing after it but send *)
(* it, so its action mutates and answers in one step.                      *)
(*                                                                         *)
(* Of the browser the model holds the token of AuthProvider, the customers *)
(* of CustomerProvider with the fetches of loadCustomers, and the          *)
(* Performance column of the Salesmen page.                                *)
(***************************************************************************)
EXTENDS Integers, Sequences, FiniteSets, TLC

----------------------------------------------------------------------------
(* Bounds of the model *)

NumProcs == 2   \* requests that can be in flight together
MaxIds == 2     \* random ids (Math.random suffixes) the server can draw
MaxTime == 2    \* the clock takes the values 0..MaxTime
MaxBatch == 2   \* rows in one bulk import
MaxAdmins == 2  \* admins ever created, the default admin included
MaxTokens == 2  \* tokens ever issued
MaxCustomers == 4  \* customers given to the Salesmen page
MaxFetches == 2    \* fetches of loadCustomers in flight together

Procs == 1..NumProcs

----------------------------------------------------------------------------
(* Strings whose characters matter are sequences of one-character strings; *)
(* the empty sequence also stands for an absent (undefined) field, which   *)
(* the handlers treat like '' (both are falsy).                            *)

Absent == <<>>

RECURSIVE TrimLeft(_)
TrimLeft(s) == IF s # <<>> /\ Head(s) = " " THEN TrimLeft(Tail(s)) ELSE s

RECURSIVE TrimRight(_)
TrimRight(s) ==
  IF s # <<>> /\ s[Len(s)] = " " THEN TrimRight(SubSeq(s, 1, Len(s) - 1)) ELSE s

\* String(x).trim()
Trim(s) == TrimRight(TrimLeft(s))

\* ids: drawn by the server (timestamp + Math.random) or sent in the body
NoId == [k |-> "none", n |-> 0]
GenId(n) == [k |-> "gen", n |-> n]
UserId(n) == [k |-> "usr", n |-> n]

\* `REG${now}` of convertLead
RegOf(t) == <<"REG", ToString(t)>>

----------------------------------------------------------------------------
VARIABLES
  customers,         \* customerDB: rows of table customers
  documents,         \* customerDB: rows of table documents
  customer_history,  \* customerDB: rows of table customer_history
  leads,             \* leadDB: rows of table leads
  lead_history,      \* leadDB: rows of table lead_history
  admins,            \* authDB: rows of table admins
  adminSeq,          \* authDB: the AUTOINCREMENT counter of table admins
  tokens,            \* tokens signed by generateToken so far
  hdr,               \* the Authorization header authenticateToken read last
  file,              \* customer_management.db: the export written last
  client,            \* the browser: the token of AuthProvider, the customers
                     \* of CustomerProvider, its fetches in flight
  req,               \* per request slot: the handler in flight and its locals
  last,              \* the response sent last
  now,               \* Date.now(), as a logical clock: two reads between
                     \* which no Tick falls return the same value
  nextId             \* random ids drawn so far + 1

authvars == <<admins, adminSeq>>
dbvars == <<customers, documents, customer_history, leads, lead_history, authvars>>
vars == <<customers, documents, customer_history, leads, lead_history, admins,
          adminSeq, tokens, hdr, file, client, client, req, last, now, nextId>>

Idle == [op |-> "idle"]

\* db.export() of customerDB's database
dbExport(c, d, h) == [customers |-> c, documents |-> d, customer_history |-> h]

\* res.status(status).json({ success: status < 400, message }) of handler op
\* res.status(status).json({ success, message })
Response(op, status, success, msg) ==
  [op |-> op, status |-> status, success |-> success, msg |-> msg]

\* not a response: the state before any response, a middleware's next(), the
\* value a database function returns
Internal(op, msg) == [op |-> op, status |-> 0, msg |-> msg]

Reply(p, r) == /\ last' = r
               /\ req' = [req EXCEPT ![p] = Idle]

\* the handler of slot p awaits real I/O with more to do afterwards: it
\* resumes at pc with its locals l
Await(p, op, pc, locals) ==
  req' = [req EXCEPT ![p] = [op |-> op, pc |-> pc, l |-> locals]]

----------------------------------------------------------------------------
(* Token middleware *)

TokenTTL == 2   \* expiresIn: '24h', in ticks of the clock

\* no Authorization header; a token our secret did not sign
NoToken == [kind |-> "none", id |-> 0, username |-> "", role |-> "none", exp |-> 0]
ForgedToken == [kind |-> "forged", id |-> 1, username |-> "admin@gmail.com",
                role |-> "central", exp |-> TokenTTL]

\* jwt.sign(admin, JWT_SECRET, { expiresIn: '24h' }) at time t
generateToken(admin, t) ==
  [kind |-> "jwt", id |-> admin.id, username |-> admin.username,
   role |-> admin.role, exp |-> t + TokenTTL]

\* jwt.verify: the signature is ours and the token has not expired
jwtVerify(tok, t) == tok.kind = "jwt" /\ t < tok.exp

\* the middleware letting every signed-looking header through
authenticateToken_AnyHeader(tok, t) ==
  IF tok.kind = "none" THEN Response("authenticateToken", 401, FALSE, "Access token required")
  ELSE Internal("next", "")

\* a middleware that also wants an active row of table admins for the token
authenticateToken_ActiveAdmin(tok, t) ==
  IF tok.kind = "none" THEN Response("authenticateToken", 401, FALSE, "Access token required")
  ELSE IF ~jwtVerify(tok, t) \/ ~\E a \in admins : a.id = tok.id /\ a.status = "active"
       THEN Response("authenticateToken", 403, FALSE, "Invalid or expired token")
       ELSE Internal("next", "")

\* authenticateToken: 0 stands for next()
authenticateToken(tok, t) ==
  IF tok.kind = "none" THEN Response("authenticateToken", 401, FALSE, "Access token required")
  ELSE IF ~jwtVerify(tok, t)
       THEN Response("authenticateToken", 403, FALSE, "Invalid or expired token")
       ELSE Internal("next", "")

\* what a client can put in the Authorization header
ClientTokens == {NoToken, ForgedToken} \cup tokens

\* app.<method>(path, authenticateToken, handler): the handler's step Handler,
\* with req.admin the decoded token, is taken only
\* after next(); otherwise the middleware has answered
Protected(p, tok, Handler) ==
  /\ req[p] = Idle
  /\ hdr' = tok
  /\ UNCHANGED <<file, client>>
  /\ LET a == authenticateToken(tok, now) IN
       IF a.status = 0 THEN Handler
       ELSE /\ Reply(p, a)
            /\ UNCHANGED <<dbvars, tokens, now, nextId>>

----------------------------------------------------------------------------
(* customerDB: table customers *)

\* the table without UNIQUE on regId
customersConstraints_NoUnique(tbl, row) ==
  /\ \A c \in tbl : c.id # row.id
  /\ row.status \in {"Active", "Inactive"}
  /\ row.membership \in {"Gold", "Silver", "Platinum"}

\* createTables: id TEXT PRIMARY KEY, regId TEXT UNIQUE NOT NULL,
\* CHECK(status IN ('Active','Inactive')),
\* CHECK(membership IN ('Gold','Silver','Platinum')); a failing db.run throws
customersConstraints(tbl, row) ==
  /\ \A c \in tbl : c.id # row.id
  /\ \A c \in tbl : c.regId # row.regId
  /\ row.status \in {"Active", "Inactive"}
  /\ row.membership \in {"Gold", "Silver", "Platinum"}

\* SELECT * FROM customers WHERE regId = ?
getCustomerByRegId(regId) == {c \in customers : c.regId = regId}

\* SELECT * FROM customers WHERE id = ?
getCustomerById(id) == {c \in customers : c.id = id}

\* an absent field whose value is kept as one TLA+ string
Undefined == "undefined"

\* JSON null in a body, SQL NULL in a row
Null == "null"

\* !value of a string field of a body
Falsy(v) == v \in {Undefined, ""}

\* body.status ?? 'Active'
OrDefault(v, d) == IF v = Undefined THEN d ELSE v

\* the normalisation of addCustomer and addCustomers; a body without id
\* gets `${regId}_${Date.now()}_${random}`
Normalized(body, fresh) ==
  [id |-> IF body.id = NoId THEN fresh ELSE body.id,
   regId |-> Trim(body.regId),
   name |-> Trim(body.name),
   contact |-> Trim(body.contact),
   status |-> OrDefault(body.status, "Active"),
   membership |-> OrDefault(body.membership, "Silver")]

\* POST /api/customers
addCustomer(p, body) ==
  IF body.regId = Absent \/ body.name = Absent \/ body.contact = Absent
  THEN /\ Reply(p, Response("addCustomer", 400, FALSE, "Missing required fields: regId, name, or contact"))
       /\ UNCHANGED <<dbvars, tokens, now, nextId>>
  ELSE IF getCustomerByRegId(body.regId) # {}
  THEN /\ Reply(p, Response("addCustomer", 409, FALSE, "Customer with this registration ID already exists"))
       /\ UNCHANGED <<dbvars, tokens, now, nextId>>
  ELSE LET customerData == Normalized(body, GenId(nextId)) IN
       IF customersConstraints(customers, customerData)
       THEN \* customerDB.addCustomer: INSERT, then await saveDatabase()
            /\ body.id = NoId => nextId <= MaxIds
            /\ customers' = customers \cup {customerData}
            /\ nextId' = IF body.id = NoId THEN nextId + 1 ELSE nextId
            /\ Reply(p, Response("addCustomer", 201, TRUE, "Customer added successfully"))
            /\ UNCHANGED <<documents, customer_history, leads, lead_history,
                           authvars, tokens, now>>
       ELSE \* db.run throws; customerDB.addCustomer catches and returns false
            /\ Reply(p, Response("addCustomer", 500, FALSE, "Failed to add customer"))
            /\ UNCHANGED <<dbvars, tokens, now, nextId>>

\* one pass of the validation loop of addCustomers over rows[i..]: the
\* normalized rows, the number of 'Missing required fields' errors, and the
\* random ids drawn
RECURSIVE ValidateRows(_, _, _)
ValidateRows(rows, i, nid) ==
  IF i > Len(rows) THEN [valid |-> <<>>, errors |-> 0, nid |-> nid]
  ELSE LET c == rows[i] IN
    IF c.regId = Absent \/ c.name = Absent \/ c.contact = Absent
    THEN LET r == ValidateRows(rows, i + 1, nid) IN
           [r EXCEPT !.errors = @ + 1]
    ELSE LET nid2 == IF c.id = NoId THEN nid + 1 ELSE nid
             r == ValidateRows(rows, i + 1, nid2) IN
           [r EXCEPT !.valid = <<Normalized(c, GenId(nid))>> \o @]

\* the inserts in one try/catch: the first failing row ends the batch
RECURSIVE InsertRows_OneTry(_, _, _)
InsertRows_OneTry(tbl, valid, i) ==
  IF i > Len(valid) THEN [tbl |-> tbl, added |-> 0, errors |-> 0]
  ELSE IF customersConstraints(tbl, valid[i])
       THEN LET r == InsertRows_OneTry(tbl \cup {valid[i]}, valid, i + 1) IN
              [r EXCEPT !.added = @ + 1]
       ELSE [tbl |-> tbl, added |-> 0, errors |-> Len(valid) - i + 1]

\* customerDB.addCustomers: one INSERT per row, each in its own try/catch
RECURSIVE InsertRows(_, _, _)
InsertRows(tbl, valid, i) ==
  IF i > Len(valid) THEN [tbl |-> tbl, added |-> 0, errors |-> 0]
  ELSE IF customersConstraints(tbl, valid[i])
       THEN LET r == InsertRows(tbl \cup {valid[i]}, valid, i + 1) IN
              [r EXCEPT !.added = @ + 1]
       ELSE LET r == InsertRows(tbl, valid, i + 1) IN
              [r EXCEPT !.errors = @ + 1]

\* the body of the bulk response: added, errors.length, total
BulkResponse(status, success, msg, added, errors, total) ==
  [op |-> "addCustomers", status |-> status, success |-> success, msg |-> msg,
   added |-> added, errors |-> errors, total |-> total]

\* POST /api/customers/bulk and POST /api/upload
addCustomers(p, rows) ==
  IF Len(rows) = 0
  THEN /\ Reply(p, Response("addCustomers", 400, FALSE, "Invalid customers data. Expected array of customers."))
       /\ UNCHANGED <<dbvars, tokens, now, nextId>>
  ELSE LET v == ValidateRows(rows, 1, nextId) IN
    IF Len(v.valid) = 0
    THEN /\ Reply(p, [op |-> "addCustomers", status |-> 400, success |-> FALSE,
                      msg |-> "No valid customers to add", errors |-> v.errors])
         /\ UNCHANGED <<dbvars, tokens, now, nextId>>
    ELSE LET result == InsertRows(customers, v.valid, 1) IN
         /\ v.nid <= MaxIds + 1
         /\ customers' = result.tbl
         /\ nextId' = v.nid
         /\ Reply(p, BulkResponse(200, TRUE, "Successfully added customers", result.added,
                               result.errors + v.errors, Len(v.valid)))
         /\ UNCHANGED <<documents, customer_history, leads, lead_history,
                        authvars, tokens, now>>

\* { ...existing, ...customer }: every field the body carries replaces the
\* row's, regId included
Spread(existing, customer) ==
  [existing EXCEPT
     !.regId = IF customer.regId = Absent THEN @ ELSE customer.regId,
     !.name = IF customer.name = Absent THEN @ ELSE customer.name,
     !.status = OrDefault(customer.status, @)]

\* an UPDATE that writes regId too
updateColumns_WithRegId(row, updated) ==
  [row EXCEPT !.regId = updated.regId,
              !.name = updated.name,
              !.contact = updated.contact,
              !.status = updated.status,
              !.membership = IF Falsy(updated.membership) THEN "Silver" ELSE updated.membership]

\* UPDATE customers SET name = ?, contact = ?, ..., status = ?, ...,
\* membership = ? WHERE id = ?: the columns written, id and regId not among
\* them
updateColumns(row, updated) ==
  [row EXCEPT !.name = updated.name,
              !.contact = updated.contact,
              !.status = updated.status,
              !.membership = IF Falsy(updated.membership) THEN "Silver" ELSE updated.membership]

\* PUT /api/customers/:id; the row the handler reads again for the data of
\* its 200 is not part of the response here
updateCustomer(p, id, updates) ==
  LET existing == getCustomerById(id) IN
  IF existing = {}
  THEN /\ Reply(p, Response("updateCustomer", 404, FALSE, "Customer not found or update failed"))
       /\ UNCHANGED <<dbvars, tokens, now, nextId>>
  ELSE LET old == CHOOSE c \in existing : TRUE
           updated == updateColumns(old, Spread(old, updates)) IN
       IF updated.status \in {"Active", "Inactive"}
       THEN /\ customers' = (customers \ {old}) \cup {updated}
            /\ Reply(p, Response("updateCustomer", 200, TRUE, "Customer updated successfully"))
            /\ UNCHANGED <<documents, customer_history, leads, lead_history,
                           authvars, tokens, now, nextId>>
       ELSE \* the CHECK fails; customerDB.updateCustomer returns false
            /\ Reply(p, Response("updateCustomer", 404, FALSE, "Customer not found or update failed"))
            /\ UNCHANGED <<dbvars, tokens, now, nextId>>

\* DELETE FROM customers WHERE id = ?  (foreign keys are not switched on:
\* no PRAGMA foreign_keys, so nothing cascades)
DeleteRows(tbl, ids) == {c \in tbl : c.id \notin ids}

\* DELETE /api/customers/:id
deleteCustomer(p, id) ==
  /\ customers' = DeleteRows(customers, {id})
  /\ Reply(p, Response("deleteCustomer", 200, TRUE, "Customer deleted successfully"))
  /\ UNCHANGED <<documents, customer_history, leads, lead_history,
                 authvars, tokens, now, nextId>>

\* DELETE /api/customers  { ids }
deleteCustomers(p, ids) ==
  IF ids = {}
  THEN /\ Reply(p, Response("deleteCustomers", 400, FALSE, "Invalid customer IDs. Expected array of IDs."))
       /\ UNCHANGED <<dbvars, tokens, now, nextId>>
  ELSE /\ customers' = DeleteRows(customers, ids)
       /\ Reply(p, Response("deleteCustomers", 200, TRUE, "Successfully deleted customers"))
       /\ UNCHANGED <<documents, customer_history, leads, lead_history,
                      authvars, tokens, now, nextId>>

\* DELETE /api/customers/all/clear
clearAllCustomers(p) ==
  /\ customers' = {}
  /\ Reply(p, Response("clearAllCustomers", 200, TRUE, "All customers cleared successfully"))
  /\ UNCHANGED <<documents, customer_history, leads, lead_history,
                 authvars, tokens, now, nextId>>

----------------------------------------------------------------------------
(* customerDB: tables documents and customer_history *)

\* SELECT ... FROM documents WHERE customerId = ?
listDocuments(customerId) == {d \in documents : d.customerId = customerId}

\* POST /api/customers/:id/documents, up to its first await of file I/O
uploadCustomerDocument(p, id, complete) ==
  IF ~complete
  THEN /\ Reply(p, Response("uploadCustomerDocument", 400, FALSE, "filename and contentBase64 are required"))
       /\ UNCHANGED <<dbvars, tokens, now, nextId>>
  ELSE IF listDocuments(id) # {}
  THEN /\ Reply(p, Response("uploadCustomerDocument", 409, FALSE, "Document already exists for this customer. Delete it to upload a new one."))
       /\ UNCHANGED <<dbvars, tokens, now, nextId>>
  ELSE \* await fs.mkdir(uploadsDir)
       /\ Await(p, "uploadCustomerDocument", "mkdir", [id |-> id])
       /\ UNCHANGED <<dbvars, tokens, last, now, nextId>>

\* fs.mkdir has settled (its error is swallowed): await fs.writeFile(filePath)
uploadCustomerDocument_write(p) ==
  /\ UNCHANGED <<hdr, file, client, client>>
  /\ req[p].op = "uploadCustomerDocument"
  /\ req[p].pc = "mkdir"
  /\ Await(p, "uploadCustomerDocument", "writeFile", req[p].l)
  /\ UNCHANGED <<dbvars, tokens, last, now, nextId>>

\* the file is written: customerDB.addDocument inserts the row under a docId
\* with a random suffix, and the handler answers 201
uploadCustomerDocument_add(p) ==
  /\ UNCHANGED <<hdr, file, client, client>>
  /\ req[p].op = "uploadCustomerDocument"
  /\ req[p].pc = "writeFile"
  /\ nextId <= MaxIds
  /\ documents' = documents \cup {[id |-> GenId(nextId), customerId |-> req[p].l.id]}
  /\ nextId' = nextId + 1
  /\ Reply(p, [op |-> "uploadCustomerDocument", status |-> 201, success |-> TRUE, msg |-> "",
               customerId |-> req[p].l.id, id |-> GenId(nextId)])
  /\ UNCHANGED <<customers, customer_history, leads, lead_history, authvars,
                 tokens, now>>

\* DELETE /api/customers/:id/documents/:docId and
\* DELETE /api/customers/documents/:docId; customerDB.deleteDocument
\* returns true whether or not a row went
deleteCustomerDocument(p, docId) ==
  /\ documents' = {d \in documents : d.id # docId}
  /\ Reply(p, [op |-> "deleteCustomerDocument", status |-> 200, success |-> TRUE,
               msg |-> "Document deleted", id |-> docId])
  /\ UNCHANGED <<customers, customer_history, leads, lead_history, authvars,
                 tokens, now, nextId>>

\* ids of history rows: `${owner}_hist_${Date.now()}` with, except in
\* convertLead, a random suffix
HistId(owner, t, suffix) == [owner |-> owner, t |-> t, suffix |-> suffix]

\* a variant of customerDB.addHistory that keeps one entry per customer
addHistory_Latest(tbl, entry, t) ==
  {h \in tbl : h.customerId # entry.customerId}
    \cup {[id |-> entry.id, customerId |-> entry.customerId, action |-> entry.action,
           note |-> IF Falsy(entry.note) THEN Null ELSE entry.note, created_at |-> t]}

\* customerDB.addHistory: INSERT INTO customer_history (id, customerId, action,
\* note) with note || null and created_at DEFAULT CURRENT_TIMESTAMP; the
\* PRIMARY KEY rejects a second row of the same id, customerId is not checked
\* against customers (foreign keys are not switched on)
addHistory(tbl, entry, t) ==
  IF \E h \in tbl : h.id = entry.id
  THEN tbl
  ELSE tbl \cup {[id |-> entry.id, customerId |-> entry.customerId,
                  action |-> entry.action,
                  note |-> IF Falsy(entry.note) THEN Null ELSE entry.note,
                  created_at |-> t]}

\* what addHistory returns: false when the INSERT threw
addHistoryOk(tbl, entry) == ~\E h \in tbl : h.id = entry.id

\* customerDB.getHistory: the rows of one customer as CustomerHistoryEntry
\* objects (note null becomes undefined, created_at becomes createdAt); the
\* ORDER BY is not modelled, the result is the set of entries
getHistory(customerId) ==
  {[id |-> h.id, customerId |-> h.customerId, action |-> h.action,
    note |-> IF h.note = Null THEN Undefined ELSE h.note,
    createdAt |-> h.created_at] : h \in {r \in customer_history : r.customerId = customerId}}

\* GET /api/customers/:id/history
getCustomerHistory(p, id) ==
  /\ Reply(p, [op |-> "getCustomerHistory", status |-> 200, success |-> TRUE,
               msg |-> "", customerId |-> id, data |-> getHistory(id)])
  /\ UNCHANGED <<dbvars, tokens, now, nextId>>

\* POST /api/customers/:id/history  { action, note? }
addCustomerHistory(p, id, body) ==
  IF Falsy(body.action)
  THEN /\ Reply(p, Response("addCustomerHistory", 400, FALSE, "action is required"))
       /\ UNCHANGED <<dbvars, tokens, now, nextId>>
  ELSE /\ nextId <= MaxIds
       /\ LET entry == [id |-> HistId(id, now, GenId(nextId)), customerId |-> id,
                        action |-> body.action, note |-> body.note] IN
          /\ customer_history' = addHistory(customer_history, entry, now)
          /\ IF addHistoryOk(customer_history, entry)
             THEN Reply(p, [op |-> "addCustomerHistory", status |-> 201, success |-> TRUE,
                            msg |-> "", customerId |-> id, id |-> entry.id])
             ELSE Reply(p, Response("addCustomerHistory", 500, FALSE, "Failed to add history"))
       /\ nextId' = nextId + 1
       /\ UNCHANGED <<customers, documents, leads, lead_history, authvars,
                      tokens, now>>

----------------------------------------------------------------------------
(* leadDB: tables leads and lead_history, in leadDB's own sql.js database *)

LEAD_SOURCES == <<"Web", "Call", "WhatsApp", "Other">>
LEAD_STATUSES == <<"New", "Contacted", "Qualified", "Converted", "Lost">>
LEAD_PRIORITIES == <<"Low", "Medium", "High">>

\* value == null
IsNullish(value) == value \in {Undefined, Null}

\* String.prototype.trim on the texts of the model
trim(s) ==
  CASE s \in {" Lost ", "Lost "} -> "Lost"
    [] s = " web " -> "web"
    [] s = " HIGH" -> "HIGH"
    [] s = "  " -> ""
    [] OTHER -> s

\* String.prototype.toLowerCase on the texts of the model
toLowerCase(s) ==
  CASE s \in {"New", "NEW", "new"} -> "new"
    [] s \in {"Contacted", "CONTACTED", "contacted"} -> "contacted"
    [] s \in {"Qualified", "QUALIFIED", "qualified"} -> "qualified"
    [] s \in {"Converted", "CONVERTED", "converted"} -> "converted"
    [] s \in {"Lost", "LOST", "lost"} -> "lost"
    [] s \in {"Web", "WEB", "web"} -> "web"
    [] s \in {"Call", "CALL", "call"} -> "call"
    [] s \in {"WhatsApp", "WHATSAPP", "whatsapp"} -> "whatsapp"
    [] s \in {"Other", "OTHER", "other"} -> "other"
    [] s \in {"Low", "LOW", "low"} -> "low"
    [] s \in {"Medium", "MEDIUM", "medium"} -> "medium"
    [] s \in {"High", "HIGH", "high"} -> "high"
    [] s \in {"Fax", "FAX", "fax"} -> "fax"
    [] OTHER -> s

\* list.find(x => x.toLowerCase() === normalized.toLowerCase()): the first
\* match, or none
Find(list, normalized) ==
  LET hits == {i \in 1..Len(list) : toLowerCase(list[i]) = toLowerCase(normalized)} IN
  IF hits = {} THEN Undefined
  ELSE list[CHOOSE i \in hits : \A j \in hits : i <= j]

\* normalizeLeadSource: undefined for null and '', else the match or 'Other'
normalizeLeadSource(value) ==
  IF IsNullish(value) \/ value = "" THEN Undefined
  ELSE LET match == Find(LEAD_SOURCES, trim(value)) IN
         IF match = Undefined THEN "Other" ELSE match

\* normalizeLeadStatus: String(value ?? '').trim(), the match or 'New'
normalizeLeadStatus(value) ==
  LET match == Find(LEAD_STATUSES, trim(IF IsNullish(value) THEN "" ELSE value)) IN
  IF match = Undefined THEN "New" ELSE match

\* the unknown priority stored as it came
normalizeLeadPriority_Unchecked(value) ==
  IF IsNullish(value) \/ value = "" THEN "Medium"
  ELSE LET match == Find(LEAD_PRIORITIES, trim(value)) IN
         IF match = Undefined THEN value ELSE match

\* normalizeLeadPriority: 'Medium' for null and '', else the match or 'Medium'
normalizeLeadPriority(value) ==
  IF IsNullish(value) \/ value = "" THEN "Medium"
  ELSE LET match == Find(LEAD_PRIORITIES, trim(value)) IN
         IF match = Undefined THEN "Medium" ELSE match

\* x ?? null
OrNull(x) == IF x = Undefined THEN Null ELSE x

\* the leads table: id TEXT PRIMARY KEY, name/contact NOT NULL,
\* CHECK(status IN (...)) NOT NULL, CHECK(priority IN (...)); a NULL priority
\* passes its CHECK
leadsConstraints(row) ==
  /\ row.name # Absent
  /\ row.contact # Absent
  /\ row.status \in {"New", "Contacted", "Qualified", "Converted", "Lost"}
  /\ row.priority \in {"Low", "Medium", "High", Null}

\* the columns leadDB.add and leadDB.patch write from the lead n: the three
\* normalized ones and linkedCustomerId || null
leadColumns(id, n) ==
  [id |-> id, name |-> n.name, contact |-> n.contact,
   source |-> OrNull(normalizeLeadSource(n.source)),
   status |-> normalizeLeadStatus(n.status),
   priority |-> normalizeLeadPriority(n.priority),
   linkedCustomerId |-> n.linkedCustomerId]

\* POST /api/leads: lead.id || `lead_${Date.now()}_${random}`,
\* lead.status || 'New', then leadDB.add, which throws when the INSERT fails
addLead(p, lead) ==
  LET id == IF lead.id = NoId THEN GenId(nextId) ELSE lead.id
      row == leadColumns(id, [lead EXCEPT !.status =
                                IF @ \in {Undefined, Null, ""} THEN "New" ELSE @]) IN
  IF ~leadsConstraints(row) \/ \E l \in leads : l.id = id
  THEN /\ Reply(p, Response("addLead", 500, FALSE, "Failed to add lead"))
       /\ UNCHANGED <<dbvars, tokens, now, nextId>>
  ELSE /\ lead.id = NoId => nextId <= MaxIds
       /\ leads' = leads \cup {row}
       /\ nextId' = IF lead.id = NoId THEN nextId + 1 ELSE nextId
       /\ Reply(p, [op |-> "addLead", status |-> 201, success |-> TRUE, msg |-> "",
                    id |-> id])
       /\ UNCHANGED <<customers, documents, customer_history, lead_history,
                      authvars, tokens, now>>

\* a field the patch does not carry
Keep == "keep"
KeepId == [k |-> "keep", n |-> 0]

\* leadDB.patch on the row c it found: n = { ...c, ...patch }, then the UPDATE
\* of the columns of n
leadPatched(c, patch) ==
  leadColumns(c.id,
    [name |-> c.name, contact |-> c.contact,
     source |-> IF patch.source = Keep THEN c.source ELSE patch.source,
     status |-> IF patch.status = Keep THEN c.status ELSE patch.status,
     priority |-> IF patch.priority = Keep THEN c.priority ELSE patch.priority,
     linkedCustomerId |-> IF patch.linkedCustomerId = KeepId
                          THEN c.linkedCustomerId ELSE patch.linkedCustomerId])

\* PUT /api/leads/:id: leadDB.patch(id, req.body); 404 when it returns false
updateLead(p, id, patch) ==
  LET cur == {x \in leads : x.id = id} IN
  IF cur = {}
  THEN /\ Reply(p, Response("updateLead", 404, FALSE, "Lead not found"))
       /\ UNCHANGED <<dbvars, tokens, now, nextId>>
  ELSE LET c == CHOOSE x \in cur : TRUE IN
       /\ leads' = (leads \ {c}) \cup {leadPatched(c, patch)}
       /\ Reply(p, Response("updateLead", 200, TRUE, ""))
       /\ UNCHANGED <<customers, documents, customer_history, lead_history,
                      authvars, tokens, now, nextId>>

\* DELETE /api/leads/:id: leadDB.remove
deleteLead(p, id) ==
  /\ leads' = {l \in leads : l.id # id}
  /\ Reply(p, Response("deleteLead", 200, TRUE, ""))
  /\ UNCHANGED <<customers, documents, customer_history, lead_history,
                 authvars, tokens, now, nextId>>

\* leadDB.addHistory of convertLead: INSERT INTO lead_history under the id
\* `${id}_hist_${Date.now()}` (id TEXT PRIMARY KEY); it throws on a clash
leadHistoryRow(id, t) ==
  [id |-> HistId(id, t, NoId), leadId |-> id, action |-> "Converted"]

leadHistoryClash(row) == \E h \in lead_history : h.id = row.id

\* POST /api/leads/:id/convert, up to the saveDatabase() of
\* customerDB.addCustomer
convertLead(p, id, body) ==
  LET found == {l \in leads : l.id = id} IN
  IF found = {}
  THEN /\ Reply(p, Response("convertLead", 404, FALSE, "Lead not found"))
       /\ UNCHANGED <<dbvars, tokens, now, nextId>>
  ELSE LET lead == CHOOSE l \in found : TRUE
           customerId == GenId(nextId)
           regId == RegOf(now)
           customer == [id |-> customerId, regId |-> regId, name |-> lead.name,
                        contact |-> lead.contact, status |-> "Active",
                        membership |-> OrDefault(body.membership, "Silver")] IN
       IF customersConstraints(customers, customer)
       THEN /\ nextId <= MaxIds
            /\ customers' = customers \cup {customer}
            /\ nextId' = nextId + 1
            /\ Await(p, "convertLead", "patch",
                     [id |-> id, customerId |-> customerId, regId |-> regId])
            /\ UNCHANGED <<documents, customer_history, leads, lead_history,
                           authvars, tokens, last, now>>
       ELSE /\ Reply(p, Response("convertLead", 500, FALSE, "Failed to create customer"))
            /\ UNCHANGED <<dbvars, tokens, now, nextId>>

\* leadDB.patch(id, { status: 'Converted', linkedCustomerId }); its result is
\* not looked at.  When the lead is gone patch returns false without awaiting
\* and the handler goes straight on to leadDB.addHistory.
convertLead_patch(p) ==
  /\ UNCHANGED <<hdr, file, client, client>>
  /\ req[p].op = "convertLead"
  /\ req[p].pc = "patch"
  /\ LET l == req[p].l
         cur == {x \in leads : x.id = l.id} IN
     IF cur # {}
     THEN LET c == CHOOSE x \in cur : TRUE IN
          /\ leads' = (leads \ {c}) \cup
                        {leadPatched(c, [source |-> Keep, status |-> "Converted",
                                         priority |-> Keep,
                                         linkedCustomerId |-> l.customerId])}
          /\ Await(p, "convertLead", "leadHistory", l)
          /\ UNCHANGED <<customers, documents, customer_history, lead_history,
                         authvars, tokens, last, now, nextId>>
     ELSE IF leadHistoryClash(leadHistoryRow(l.id, now))
     THEN /\ Reply(p, Response("convertLead", 500, FALSE, "Conversion failed"))
          /\ UNCHANGED <<dbvars, tokens, now, nextId>>
     ELSE /\ lead_history' = lead_history \cup {leadHistoryRow(l.id, now)}
          /\ Await(p, "convertLead", "customerHistory", l)
          /\ UNCHANGED <<customers, documents, customer_history, leads,
                         authvars, tokens, last, now, nextId>>

\* leadDB.addHistory after the save() of leadDB.patch
convertLead_leadHistory(p) ==
  /\ UNCHANGED <<hdr, file, client, client>>
  /\ req[p].op = "convertLead"
  /\ req[p].pc = "leadHistory"
  /\ LET l == req[p].l IN
     IF leadHistoryClash(leadHistoryRow(l.id, now))
     THEN /\ Reply(p, Response("convertLead", 500, FALSE, "Conversion failed"))
          /\ UNCHANGED <<dbvars, tokens, now, nextId>>
     ELSE /\ lead_history' = lead_history \cup {leadHistoryRow(l.id, now)}
          /\ Await(p, "convertLead", "customerHistory", l)
          /\ UNCHANGED <<customers, documents, customer_history, leads,
                         authvars, tokens, last, now, nextId>>

\* customerDB.addHistory under `${customerId}_hist_${Date.now()}` (its result
\* is not looked at), then 201 with { customerId, regId }
convertLead_customerHistory(p) ==
  /\ UNCHANGED <<hdr, file, client, client>>
  /\ req[p].op = "convertLead"
  /\ req[p].pc = "customerHistory"
  /\ LET l == req[p].l
         entry == [id |-> HistId(l.customerId, now, NoId),
                   customerId |-> l.customerId, action |-> "Created from Lead",
                   note |-> "Lead"] IN
     /\ customer_history' = addHistory(customer_history, entry, now)
     /\ Reply(p, [op |-> "convertLead", status |-> 201, success |-> TRUE, msg |-> "",
                  lead |-> l.id, customerId |-> l.customerId, regId |-> l.regId])
     /\ UNCHANGED <<customers, documents, leads, lead_history, authvars,
                    tokens, now, nextId>>

----------------------------------------------------------------------------
(* authDB and the handlers of routes/auth.ts *)

\* bcrypt.hash and bcrypt.compare
bcryptHash(password) == <<"bcrypt", password>>
bcryptCompare(password, hash) == hash = bcryptHash(password)

\* createDefaultAdmin: admin@gmail.com / admin123, the central admin
DefaultAdmin ==
  [id |-> 1, username |-> "admin@gmail.com", name |-> "Admin",
   password |-> bcryptHash("admin123"), role |-> "central", status |-> "active"]

\* authDB.verifyAdmin after its SELECT found the row admin: bcrypt.compare
\* against the row's hash, then the row's status
verifyAdmin(admin, password) ==
  IF ~bcryptCompare(password, admin.password)
  THEN [success |-> FALSE, suspended |-> FALSE, admin |-> admin]
  ELSE IF admin.status = "suspended"
  THEN [success |-> FALSE, suspended |-> TRUE, admin |-> admin]
  ELSE [success |-> TRUE, suspended |-> FALSE, admin |-> admin]

\* res.json({ success: true, data: { token, admin } })
LoginResponse(token) ==
  [op |-> "handleLogin", status |-> 200, success |-> TRUE, msg |-> "",
   token |-> token]

\* POST /api/auth/login (public), up to the await of bcrypt.compare:
\* validation, then verifyAdmin's SELECT * FROM admins WHERE username = ?
handleLogin(p, username, password) ==
  /\ UNCHANGED <<hdr, file, client, client>>
  /\ req[p] = Idle
  /\ IF Falsy(username) \/ Falsy(password)
     THEN /\ Reply(p, Response("handleLogin", 400, FALSE, "Username and password are required"))
          /\ UNCHANGED <<dbvars, tokens, now, nextId>>
     ELSE LET rows == {a \in admins : a.username = username} IN
       IF rows = {}
       THEN /\ Reply(p, Response("handleLogin", 401, FALSE, "Invalid credentials"))
            /\ UNCHANGED <<dbvars, tokens, now, nextId>>
       ELSE /\ Await(p, "handleLogin", "compare",
                     [admin |-> CHOOSE a \in rows : TRUE, password |-> password])
            /\ UNCHANGED <<dbvars, tokens, last, now, nextId>>

\* the response without the branch on authResult.suspended
handleLogin_compare_No403(p) ==
  /\ UNCHANGED <<hdr, file, client, client>>
  /\ req[p] # Idle
  /\ req[p].op = "handleLogin"
  /\ LET authResult == verifyAdmin(req[p].l.admin, req[p].l.password)
         token == generateToken(authResult.admin, now) IN
       IF ~authResult.success
       THEN /\ Reply(p, Response("handleLogin", 401, FALSE, "Invalid credentials"))
            /\ UNCHANGED <<dbvars, tokens, now, nextId>>
       ELSE /\ token \in tokens \/ Cardinality(tokens) < MaxTokens
            /\ tokens' = tokens \cup {token}
            /\ Reply(p, LoginResponse(token))
            /\ UNCHANGED <<dbvars, now, nextId>>

\* bcrypt.compare has settled: the rest of verifyAdmin, and the response
handleLogin_compare(p) ==
  /\ UNCHANGED <<hdr, file, client, client>>
  /\ req[p] # Idle
  /\ req[p].op = "handleLogin"
  /\ LET authResult == verifyAdmin(req[p].l.admin, req[p].l.password)
         token == generateToken(authResult.admin, now) IN
       IF ~authResult.success
       THEN /\ Reply(p, IF authResult.suspended
                        THEN Response("handleLogin", 403, FALSE, "Your account has been suspended")
                        ELSE Response("handleLogin", 401, FALSE, "Invalid credentials"))
            /\ UNCHANGED <<dbvars, tokens, now, nextId>>
       ELSE /\ token \in tokens \/ Cardinality(tokens) < MaxTokens
            /\ tokens' = tokens \cup {token}
            /\ Reply(p, LoginResponse(token))
            /\ UNCHANGED <<dbvars, now, nextId>>

\* the role guard left out
notCentral_Never(who) == FALSE

\* !req.admin || req.admin.role !== 'central'
notCentral(who) == who.role # "central"

\* the central-target guard left out
targetIsCentral_Never(target) == FALSE

\* target.role === 'central'
targetIsCentral(target) == (CHOOSE a \in target : TRUE).role = "central"

\* SELECT * FROM admins WHERE id = ?
getAdminById(id) == {a \in admins : a.id = id}

\* a request without the fields of a PATCH body
NoBody == [name |-> Undefined, username |-> Undefined, password |-> Undefined]

\* the answer of an admin-management handler, with the request it answers:
\* `role` is req.admin.role, `target` the :id of the path, `body` the PATCH
\* body, `call` the authDB function the handler went on to call
AdminResponse(op, status, success, msg, who, target, body, call) ==
  [op |-> op, status |-> status, success |-> success, msg |-> msg, role |-> who.role,
   target |-> target, body |-> body, call |-> call]

\* only the username counted as a credential
carriesCredentials_UsernameOnly(body) == ~Falsy(body.username)

\* username || password of a PATCH body
carriesCredentials(body) == ~Falsy(body.username) \/ ~Falsy(body.password)

Forbidden(p, op, who, target) ==
  /\ Reply(p, AdminResponse(op, 403, FALSE, "Forbidden", who, target, NoBody, "none"))
  /\ UNCHANGED <<dbvars, tokens, now, nextId>>

AdminReply(p, r) ==
  /\ Reply(p, r)
  /\ UNCHANGED <<customers, documents, customer_history, leads, lead_history,
                 tokens, now, nextId>>

\* GET /api/auth/admins
handleViewAdmins(p, who) ==
  IF notCentral(who) THEN Forbidden(p, "handleViewAdmins", who, 0)
  ELSE /\ Reply(p, AdminResponse("handleViewAdmins", 200, TRUE, "Found admin(s) in database",
                                 who, 0, NoBody, "getAllAdmins"))
       /\ UNCHANGED <<dbvars, tokens, now, nextId>>

\* authDB.createAdmin(name, username, password, role): username TEXT UNIQUE
createAdmin(name, username, password, role) ==
  IF \E a \in admins : a.username = username
  THEN [ok |-> FALSE, admins |-> admins]
  ELSE [ok |-> TRUE,
        admins |-> admins \cup
          {[id |-> adminSeq + 1, username |-> username, name |-> name,
            password |-> bcryptHash(password), role |-> role,
            status |-> "active"]}]

\* POST /api/auth/admins
handleCreateAdmin(p, who, body) ==
  IF notCentral(who) THEN Forbidden(p, "handleCreateAdmin", who, 0)
  ELSE IF Falsy(body.name) \/ Falsy(body.username) \/ Falsy(body.password)
  THEN /\ Reply(p, AdminResponse("handleCreateAdmin", 400, FALSE, "Name, username and password are required",
                                 who, 0, NoBody, "none"))
       /\ UNCHANGED <<dbvars, tokens, now, nextId>>
  ELSE LET r == createAdmin(body.name, body.username, body.password,
                            IF body.role = "central" THEN "central" ELSE "admin") IN
       /\ r.ok => adminSeq < MaxAdmins
       /\ admins' = r.admins
       /\ adminSeq' = IF r.ok THEN adminSeq + 1 ELSE adminSeq
       /\ AdminReply(p, IF r.ok
            THEN AdminResponse("handleCreateAdmin", 200, TRUE, "Admin created", who, 0, NoBody, "createAdmin")
            ELSE AdminResponse("handleCreateAdmin", 400, FALSE, "Failed to create admin (maybe username already exists)",
                               who, 0, NoBody, "createAdmin"))

\* authDB.setAdminStatus(id, status)
setAdminStatus(id, status) ==
  {IF a.id = id THEN [a EXCEPT !.status = status] ELSE a : a \in admins}

\* authDB.deleteAdmin(id)
deleteAdmin(id) == {a \in admins : a.id # id}

\* authDB.updateAdmin(id, { name, username, password }): the fields given
\* are written; username TEXT UNIQUE
updateAdmin(id, fields) ==
  IF ~Falsy(fields.username) /\ \E a \in admins : a.id # id /\ a.username = fields.username
  THEN [ok |-> FALSE, admins |-> admins]
  ELSE [ok |-> TRUE,
        admins |-> {IF a.id # id THEN a
                    ELSE [a EXCEPT
                            !.name = IF Falsy(fields.name) THEN @ ELSE fields.name,
                            !.username = IF Falsy(fields.username) THEN @ ELSE fields.username,
                            !.password = IF Falsy(fields.password) THEN @
                                         ELSE bcryptHash(fields.password)]
                      : a \in admins}]

\* POST /api/auth/admins/:id/suspend
handleSuspendAdmin(p, who, id) ==
  IF notCentral(who) THEN Forbidden(p, "handleSuspendAdmin", who, id)
  ELSE LET target == getAdminById(id) IN
    IF target = {}
    THEN /\ Reply(p, AdminResponse("handleSuspendAdmin", 404, FALSE, "Admin not found", who, id, NoBody, "none"))
         /\ UNCHANGED <<dbvars, tokens, now, nextId>>
    ELSE IF targetIsCentral(target)
    THEN /\ Reply(p, AdminResponse("handleSuspendAdmin", 400, FALSE, "Cannot suspend central admin", who, id, NoBody, "none"))
         /\ UNCHANGED <<dbvars, tokens, now, nextId>>
    ELSE /\ admins' = setAdminStatus(id, "suspended")
         /\ UNCHANGED adminSeq
         /\ AdminReply(p, AdminResponse("handleSuspendAdmin", 200, TRUE, "Admin suspended", who, id, NoBody, "setAdminStatus"))

\* POST /api/auth/admins/:id/unsuspend
handleUnsuspendAdmin(p, who, id) ==
  IF notCentral(who) THEN Forbidden(p, "handleUnsuspendAdmin", who, id)
  ELSE LET target == getAdminById(id) IN
    IF target = {}
    THEN /\ Reply(p, AdminResponse("handleUnsuspendAdmin", 404, FALSE, "Admin not found", who, id, NoBody, "none"))
         /\ UNCHANGED <<dbvars, tokens, now, nextId>>
    ELSE /\ admins' = setAdminStatus(id, "active")
         /\ UNCHANGED adminSeq
         /\ AdminReply(p, AdminResponse("handleUnsuspendAdmin", 200, TRUE, "Admin unsuspended", who, id, NoBody, "setAdminStatus"))

\* DELETE /api/auth/admins/:id
handleDeleteAdmin(p, who, id) ==
  IF notCentral(who) THEN Forbidden(p, "handleDeleteAdmin", who, id)
  ELSE LET target == getAdminById(id) IN
    IF target = {}
    THEN /\ Reply(p, AdminResponse("handleDeleteAdmin", 404, FALSE, "Admin not found", who, id, NoBody, "none"))
         /\ UNCHANGED <<dbvars, tokens, now, nextId>>
    ELSE IF targetIsCentral(target)
    THEN /\ Reply(p, AdminResponse("handleDeleteAdmin", 400, FALSE, "Cannot delete central admin", who, id, NoBody, "none"))
         /\ UNCHANGED <<dbvars, tokens, now, nextId>>
    ELSE /\ admins' = deleteAdmin(id)
         /\ UNCHANGED adminSeq
         /\ AdminReply(p, AdminResponse("handleDeleteAdmin", 200, TRUE, "Admin deleted", who, id, NoBody, "deleteAdmin"))

\* PATCH /api/auth/admins/:id
handleUpdateAdmin(p, who, id, body) ==
  IF notCentral(who) THEN Forbidden(p, "handleUpdateAdmin", who, id)
  ELSE LET target == getAdminById(id) IN
    IF target = {}
    THEN /\ Reply(p, AdminResponse("handleUpdateAdmin", 404, FALSE, "Admin not found", who, id, body, "none"))
         /\ UNCHANGED <<dbvars, tokens, now, nextId>>
    ELSE IF /\ targetIsCentral(target)
            /\ carriesCredentials(body) \/ ~Falsy(body.name)
            /\ carriesCredentials(body)
    THEN /\ Reply(p, AdminResponse("handleUpdateAdmin", 400, FALSE, "Cannot change central admin credentials", who, id, body, "none"))
         /\ UNCHANGED <<dbvars, tokens, now, nextId>>
    ELSE LET r == updateAdmin(id, body) IN
         /\ admins' = r.admins
         /\ UNCHANGED adminSeq
         /\ AdminReply(p, AdminResponse("handleUpdateAdmin", 200, r.ok,
                            IF r.ok THEN "Admin updated" ELSE "Failed to update admin",
                            who, id, body, "updateAdmin"))

\* POST /api/auth/logout: nothing is kept of a logout, the client drops the
\* token
handleLogout(p) ==
  /\ Reply(p, Response("handleLogout", 200, TRUE, "Logged out successfully"))
  /\ UNCHANGED <<dbvars, tokens, now, nextId>>

\* GET /api/auth/profile: res.json({ success: true, data: req.admin })
handleProfile(p, who) ==
  /\ Reply(p, [op |-> "handleProfile", status |-> 200, success |-> TRUE, msg |-> "",
               admin |-> [id |-> who.id, username |-> who.username, role |-> who.role]])
  /\ UNCHANGED <<dbvars, tokens, now, nextId>>

\* authDB.updateAdminPassword after bcrypt.hash: UPDATE admins SET
\* password_hash = ? WHERE username = ?; it returns true whatever was matched
updateAdminPassword(username, newPassword) ==
  {IF a.username = username THEN [a EXCEPT !.password = bcryptHash(newPassword)]
   ELSE a : a \in admins}

\* POST /api/auth/change-password, up to the await of bcrypt.compare:
\* validation, then verifyAdmin's SELECT * FROM admins WHERE username = ?
handleChangePassword(p, who, body) ==
  IF Falsy(body.currentPassword) \/ Falsy(body.newPassword)
  THEN /\ Reply(p, Response("handleChangePassword", 400, FALSE, "Current password and new password are required"))
       /\ UNCHANGED <<dbvars, tokens, now, nextId>>
  ELSE IF Falsy(who.username)
  THEN /\ Reply(p, Response("handleChangePassword", 401, FALSE, "Unauthorized"))
       /\ UNCHANGED <<dbvars, tokens, now, nextId>>
  ELSE LET rows == {a \in admins : a.username = who.username} IN
       IF rows = {}
       THEN /\ Reply(p, Response("handleChangePassword", 401, FALSE, "Current password is incorrect"))
            /\ UNCHANGED <<dbvars, tokens, now, nextId>>
       ELSE /\ Await(p, "handleChangePassword", "compare",
                     [admin |-> CHOOSE a \in rows : TRUE, who |-> who,
                      currentPassword |-> body.currentPassword,
                      newPassword |-> body.newPassword])
            /\ UNCHANGED <<dbvars, tokens, last, now, nextId>>

\* bcrypt.compare has settled: the rest of verifyAdmin, then
\* authDB.updateAdminPassword up to its await of bcrypt.hash
handleChangePassword_compare(p) ==
  /\ UNCHANGED <<hdr, file, client, client>>
  /\ req[p] # Idle
  /\ req[p].op = "handleChangePassword"
  /\ req[p].pc = "compare"
  /\ IF ~verifyAdmin(req[p].l.admin, req[p].l.currentPassword).success
     THEN /\ Reply(p, Response("handleChangePassword", 401, FALSE, "Current password is incorrect"))
          /\ UNCHANGED <<dbvars, tokens, now, nextId>>
     ELSE /\ Await(p, "handleChangePassword", "hash", req[p].l)
          /\ UNCHANGED <<dbvars, tokens, last, now, nextId>>

\* bcrypt.hash has settled: the UPDATE, saveDatabase, and the response
handleChangePassword_hash(p) ==
  /\ UNCHANGED <<hdr, file, client, client>>
  /\ req[p] # Idle
  /\ req[p].op = "handleChangePassword"
  /\ req[p].pc = "hash"
  /\ admins' = updateAdminPassword(req[p].l.who.username, req[p].l.newPassword)
  /\ UNCHANGED adminSeq
  /\ AdminReply(p, Response("handleChangePassword", 200, TRUE, "Password updated successfully"))

----------------------------------------------------------------------------
(* Health check *)

\* GET /api/ping (public): res.json({ message: ping })
ping(p) ==
  /\ req[p] = Idle
  /\ Reply(p, [op |-> "ping", status |-> 200, msg |-> "ping"])
  /\ UNCHANGED <<dbvars, tokens, hdr, file, client, now, nextId>>

----------------------------------------------------------------------------
(* Salesmen page (client): the Performance column *)

\* String.prototype.toLowerCase on the letters of the salesman ids of the model
LowerChar(c) ==
  CASE c = "U" -> "u" [] c = "N" -> "n" [] c = "A" -> "a" [] c = "S" -> "s"
    [] c = "I" -> "i" [] c = "G" -> "g" [] c = "E" -> "e" [] c = "D" -> "d"
    [] c = "B" -> "b" [] c = "C" -> "c"
    [] OTHER -> c

toLowerCaseText(s) == [i \in 1..Len(s) |-> LowerChar(s[i])]

\* the key of customers without a salesmanId
Unassigned == <<"U", "n", "a", "s", "s", "i", "g", "n", "e", "d">>

\* id.trim().toLowerCase() === 'unassigned'
isUnassignedId(id) == toLowerCaseText(Trim(id)) = toLowerCaseText(Unassigned)

\* customer.salesmanId?.trim() || 'Unassigned'
salesmanKey(c) ==
  IF Trim(c.salesmanId) = <<>> THEN Unassigned ELSE Trim(c.salesmanId)

\* Object.entries(bySalesman): one aggregate per key, with its customers counted
aggregates ==
  {[id |-> k, totalCustomers |-> Cardinality({c \in customers : salesmanKey(c) = k})] :
     k \in {salesmanKey(c) : c \in customers}}

\* reduce((sum, a) => sum + a.totalCustomers, 0)
RECURSIVE SumTotalCustomers(_)
SumTotalCustomers(as) ==
  IF as = {} THEN 0
  ELSE LET a == CHOOSE x \in as : TRUE IN
         a.totalCustomers + SumTotalCustomers(as \ {a})

assignedTotal == SumTotalCustomers({a \in aggregates : ~isUnassignedId(a.id)})

unassignedTotal == SumTotalCustomers({a \in aggregates : isUnassignedId(a.id)})

\* the share cut off after two decimals
toFixed2_Truncated(num, den) == (num * 10000) \div den

\* ((num / den) * 100).toFixed(2), in hundredths: the nearest hundredth, the
\* larger one on a tie
toFixed2(num, den) == (2 * num * 10000 + den) \div (2 * den)

\* the Performance cell of a row: '-' or a number of hundredths over 100
Dash == [shown |-> FALSE, hundredths |-> 0]
Shown(h) == [shown |-> TRUE, hundredths |-> h]

PerformanceCell(item) ==
  IF isUnassignedId(item.id)
  THEN (IF unassignedTotal > 0 THEN Shown(10000) ELSE Dash)
  ELSE (IF assignedTotal > 0
        THEN Shown(toFixed2(item.totalCustomers, assignedTotal))
        ELSE Dash)

\* the Performance table rendered from the customers of the context
SalesmenPage ==
  /\ last' = [op |-> "SalesmenPage", status |-> 0, msg |-> "",
              rows |-> {[id |-> a.id, totalCustomers |-> a.totalCustomers,
                         performance |-> PerformanceCell(a)] : a \in aggregates}]
  /\ UNCHANGED <<dbvars, tokens, hdr, file, client, req, now, nextId>>

----------------------------------------------------------------------------
(* The browser: AuthProvider and CustomerProvider *)

\* the state of the two providers on mount with an empty localStorage:
\* token null, customers [], no fetch in flight
NoClient == [token |-> NoToken, customers |-> {}, fetches |-> {}]

Digits == {"0", "1", "2", "3", "4", "5", "6", "7", "8", "9"}

\* s.replace(/[,\s]+/g, "")
RECURSIVE RemoveSeparators(_)
RemoveSeparators(s) ==
  IF s = <<>> THEN <<>>
  ELSE IF Head(s) \in {" ", ","} THEN RemoveSeparators(Tail(s))
  ELSE <<Head(s)>> \o RemoveSeparators(Tail(s))

\* /^\d+\.\d+$/.test(s): the index of the point, 0 when s is no decimal
DecimalPoint(s) ==
  LET points == {i \in 1..Len(s) : s[i] = "."} IN
    IF /\ Cardinality(points) = 1
       /\ \A i \in 1..Len(s) : s[i] = "." \/ s[i] \in Digits
       /\ \A i \in points : 1 < i /\ i < Len(s)
    THEN CHOOSE i \in points : TRUE
    ELSE 0

\* normalizeContact of utils/phone.ts on a contact that holds no exponent:
\* trim, drop commas and spaces, drop a trailing .0, cut a decimal at its point
normalizeContact(input) ==
  LET a == RemoveSeparators(Trim(input))
      b == IF Len(a) >= 2 /\ SubSeq(a, Len(a) - 1, Len(a)) = <<".", "0">>
           THEN SubSeq(a, 1, Len(a) - 2) ELSE a IN
    IF DecimalPoint(b) # 0 THEN SubSeq(b, 1, DecimalPoint(b) - 1) ELSE b

\* GET /api/customers without filters: customerDB.searchCustomers selects
\* every row
getCustomersResponse ==
  [op |-> "getCustomers", status |-> 200, success |-> TRUE, msg |-> "",
   data |-> customers]

\* a fetch of loadCustomers: the token its headers carry, and the response
\* once the server has answered
Fetch(tok) == [token |-> tok, answered |-> FALSE, response |-> Idle]

\* loadCustomers up to its await of fetch: nothing is sent without a token
loadCustomers ==
  /\ client.token # NoToken
  /\ Cardinality(client.fetches) < MaxFetches
  /\ client' = [client EXCEPT !.fetches = @ \cup {Fetch(client.token)}]
  /\ UNCHANGED <<dbvars, tokens, hdr, file, req, last, now, nextId>>

\* the server answers a fetch of loadCustomers: authenticateToken, then
\* getCustomers
loadCustomers_served ==
  \E f \in client.fetches :
    /\ ~f.answered
    /\ \E p \in Procs : req[p] = Idle
    /\ hdr' = f.token
    /\ last' = IF authenticateToken(f.token, now).status = 0
               THEN getCustomersResponse
               ELSE authenticateToken(f.token, now)
    /\ client' = [client EXCEPT !.fetches =
                    (@ \ {f}) \cup {[f EXCEPT !.answered = TRUE, !.response = last']}]
    /\ UNCHANGED <<dbvars, tokens, file, req, now, nextId>>

\* the rest of loadCustomers: parseResponse, and setCustomers when the
\* response is ok and successful
loadCustomers_resolved ==
  \E f \in client.fetches :
    /\ f.answered
    /\ client' = [client EXCEPT
         !.fetches = @ \ {f},
         !.customers =
           IF f.response.status = 200 /\ f.response.success
           THEN {[c EXCEPT !.contact = normalizeContact(@)] : c \in f.response.data}
           ELSE @]
    /\ UNCHANGED <<dbvars, tokens, hdr, file, req, last, now, nextId>>

\* AuthProvider.login after a successful response: setToken(newToken); the
\* token effect of CustomerProvider then calls loadCustomers
login(newToken) ==
  /\ client.token = NoToken
  /\ Cardinality(client.fetches) < MaxFetches
  /\ client' = [client EXCEPT !.token = newToken,
                              !.fetches = @ \cup {Fetch(newToken)}]
  /\ UNCHANGED <<dbvars, tokens, hdr, file, req, last, now, nextId>>

\* AuthProvider.logout: setToken(null); the token effect of CustomerProvider
\* then calls setCustomers([])
logout ==
  /\ client.token # NoToken
  /\ client' = [client EXCEPT !.token = NoToken, !.customers = {}]
  /\ UNCHANGED <<dbvars, tokens, hdr, file, req, last, now, nextId>>

----------------------------------------------------------------------------
(* customerDB mutations followed down to the file *)

\* saveDatabase up to its await: data = db.export(), and fs.writeFile(dbPath,
\* data) is started
saveDatabase(p, op, c) ==
  Await(p, op, "saveDatabase", [data |-> dbExport(c, documents, customer_history)])

\* customerDB.addCustomer: db.run(INSERT) and, unless it threw, saveDatabase
customerDB_addCustomer(p, customer) ==
  /\ req[p] = Idle
  /\ IF customersConstraints(customers, customer)
     THEN /\ customers' = customers \cup {customer}
          /\ saveDatabase(p, "customerDB.addCustomer", customers')
          /\ UNCHANGED last
     ELSE /\ Reply(p, Internal("customerDB.addCustomer", "false"))
          /\ UNCHANGED customers
  /\ UNCHANGED <<documents, customer_history, leads, lead_history, authvars,
                 tokens, hdr, file, client, now, nextId>>

\* customerDB.deleteCustomer: db.run(DELETE), then saveDatabase
customerDB_deleteCustomer(p, id) ==
  /\ req[p] = Idle
  /\ customers' = DeleteRows(customers, {id})
  /\ saveDatabase(p, "customerDB.deleteCustomer", customers')
  /\ UNCHANGED <<documents, customer_history, leads, lead_history, authvars,
                 tokens, hdr, file, client, last, now, nextId>>

\* a writeFile in flight completes: the file holds its data, whatever other
\* writes are in flight or have completed; the mutation returns true
saveDatabase_written(p) ==
  /\ req[p] # Idle
  /\ req[p].pc = "saveDatabase"
  /\ file' = req[p].l.data
  /\ Reply(p, Internal(req[p].op, "true"))
  /\ UNCHANGED <<dbvars, tokens, hdr, client, now, nextId>>

\* time passes
Tick ==
  /\ now < MaxTime
  /\ now' = now + 1
  /\ UNCHANGED <<dbvars, tokens, hdr, file, client, req, last, nextId>>

----------------------------------------------------------------------------
(* Inputs *)

SeqsUpTo(S, n) == UNION {[1..k -> S] : k \in 0..n}

\* ids a client can name in a path or a body
IdParams == {GenId(n) : n \in 1..MaxIds} \cup {UserId(1)}

\* the bodies of POST /api/customers: every field present or absent, a regId
\* with and without padding, a status the CHECK refuses
CustomerBodies ==
  [id : {NoId, UserId(1)}, regId : {Absent, <<"a">>, <<" ", "a">>, <<"b">>},
   name : {Absent, <<"n">>}, contact : {Absent, <<"9">>},
   status : {Undefined, "Bogus"}, membership : {Undefined}]

\* the bodies used where addCustomer runs beside the other customer routes
FewCustomerBodies ==
  [id : {NoId, UserId(1)}, regId : {<<"a">>, <<" ", "a">>},
   name : {<<"n">>}, contact : {<<"9">>},
   status : {Undefined}, membership : {Undefined}]

\* the rows of a bulk import: a row without name, regIds that clash before
\* and after trimming, ids that clash, a status the CHECK refuses
BulkRow(id, regId, name, status) ==
  [id |-> id, regId |-> regId, name |-> name, contact |-> <<"9">>,
   status |-> status, membership |-> Undefined]

BulkRows ==
  {BulkRow(NoId, <<"c">>, Absent, Undefined),
   BulkRow(NoId, <<"a">>, <<"n">>, Undefined),
   BulkRow(UserId(1), <<"a", " ">>, <<"n">>, Undefined),
   BulkRow(UserId(1), <<"b">>, <<"n">>, Undefined),
   BulkRow(NoId, <<"b">>, <<"n">>, "Bogus")}

\* the rows used where addCustomers runs beside the other customer routes;
\* REG0 is a regId convertLead generates too
FewBulkRows ==
  [id : {NoId}, regId : {<<"a">>, RegOf(0)}, name : {<<"n">>},
   contact : {<<"9">>}, status : {Undefined}, membership : {Undefined}]

\* the bodies of PUT /api/customers/:id
UpdateBodies ==
  [regId : {<<"a">>, <<"b">>}, name : {Absent}, status : {Undefined, "Bogus"}]

\* the bodies of PUT /api/customers/:id the edit form sends: the regId field
\* of the form, a name and a status changed or left alone
EditBodies ==
  [regId : {<<"b">>, <<"c">>}, name : {Absent, <<"m">>},
   status : {Undefined, "Inactive", "Bogus"}]

\* the bodies of POST /api/leads
LeadBodies ==
  [id : {NoId}, name : {Absent, <<"x">>, <<"y">>}, contact : {<<"7">>},
   status : {Undefined, "LOST"}, source : {Undefined}, priority : {Undefined},
   linkedCustomerId : {NoId}]

FewLeadBodies ==
  [id : {NoId}, name : {<<"x">>}, contact : {<<"7">>}, status : {Undefined},
   source : {Undefined}, priority : {Undefined}, linkedCustomerId : {NoId}]

\* the bodies of POST /api/leads/:id/convert
ConvertBodies == [membership : {Undefined, "Bogus"}]

\* the customers the document routes are tried on
DocCustomerBodies ==
  [id : {UserId(1)}, regId : {<<"a">>}, name : {<<"n">>}, contact : {<<"9">>},
   status : {Undefined}, membership : {Undefined}]

DocCustomerIds == {UserId(1), UserId(2)}

\* the bodies of POST /api/customers/:id/history
HistoryBodies == [action : {Undefined, "Call"}, note : {Undefined, "busy"}]

\* credentials tried at the login form
Usernames == {"admin@gmail.com", "bob"}
Passwords == {"admin123", "pw"}

\* the bodies of POST /api/auth/admins
CreateAdminBodies ==
  [name : {Undefined, "Bob"}, username : {"bob"}, password : {"pw"},
   role : {Undefined, "central"}]

\* the bodies of PATCH /api/auth/admins/:id
UpdateAdminBodies ==
  [name : {Undefined, "Rob"}, username : {Undefined, "bob"},
   password : {Undefined, "pw"}]

AdminIds == 1..(MaxAdmins + 1)

\* the bodies of POST /api/auth/change-password
ChangePasswordBodies ==
  [currentPassword : {Undefined, "admin123", "pw"},
   newPassword : {Undefined, "pw", "new"}]

----------------------------------------------------------------------------

Init ==
  /\ customers = {}
  /\ documents = {}
  /\ customer_history = {}
  /\ leads = {}
  /\ lead_history = {}
  /\ admins = {DefaultAdmin}
  /\ adminSeq = 1
  /\ tokens = {}
  /\ hdr = NoToken
  /\ file = dbExport({}, {}, {})
  /\ client = NoClient
  /\ req = [p \in Procs |-> Idle]
  /\ last = Internal("none", "")
  /\ now = 0
  /\ nextId = 1

\* the default admin has logged in
InitLoggedIn ==
  /\ customers = {}
  /\ documents = {}
  /\ customer_history = {}
  /\ leads = {}
  /\ lead_history = {}
  /\ admins = {DefaultAdmin}
  /\ adminSeq = 1
  /\ tokens = {generateToken(DefaultAdmin, 0)}
  /\ hdr = NoToken
  /\ file = dbExport({}, {}, {})
  /\ client = NoClient
  /\ req = [p \in Procs |-> Idle]
  /\ last = Internal("none", "")
  /\ now = 0
  /\ nextId = 1

\* the customer routes, the lead routes that feed convertLead, and the clock
NextCust ==
  \/ \E p \in Procs, tok \in tokens, body \in FewCustomerBodies :
       Protected(p, tok, addCustomer(p, body))
  \/ \E p \in Procs, tok \in tokens, rows \in SeqsUpTo(FewBulkRows, MaxBatch) :
       Protected(p, tok, addCustomers(p, rows))
  \/ \E p \in Procs, tok \in tokens, id \in IdParams, updates \in UpdateBodies :
       Protected(p, tok, updateCustomer(p, id, updates))
  \/ \E p \in Procs, tok \in tokens, id \in IdParams :
       Protected(p, tok, deleteCustomer(p, id))
  \/ \E p \in Procs, tok \in tokens, ids \in SUBSET {GenId(1), UserId(1)} :
       Protected(p, tok, deleteCustomers(p, ids))
  \/ \E p \in Procs, tok \in tokens :
       Protected(p, tok, clearAllCustomers(p))
  \/ \E p \in Procs, tok \in tokens, lead \in FewLeadBodies :
       Protected(p, tok, addLead(p, lead))
  \/ \E p \in Procs, tok \in tokens, id \in IdParams, body \in ConvertBodies :
       Protected(p, tok, convertLead(p, id, body))
  \/ \E p \in Procs : convertLead_patch(p)
  \/ \E p \in Procs : convertLead_leadHistory(p)
  \/ \E p \in Procs : convertLead_customerHistory(p)
  \/ Tick

SpecCust == InitLoggedIn /\ [][NextCust]_vars

\* the document routes
NextDocs ==
  \/ \E p \in Procs, tok \in tokens, body \in DocCustomerBodies :
       Protected(p, tok, addCustomer(p, body))
  \/ \E p \in Procs, tok \in tokens, id \in DocCustomerIds, complete \in BOOLEAN :
       Protected(p, tok, uploadCustomerDocument(p, id, complete))
  \/ \E p \in Procs : uploadCustomerDocument_write(p)
  \/ \E p \in Procs : uploadCustomerDocument_add(p)
  \/ \E p \in Procs, tok \in tokens, docId \in IdParams :
       Protected(p, tok, deleteCustomerDocument(p, docId))

SpecDocs == InitLoggedIn /\ [][NextDocs]_vars

\* login and the admin-management routes
NextAdmin ==
  \/ \E p \in Procs, username \in Usernames, password \in Passwords :
       handleLogin(p, username, password)
  \/ \E p \in Procs : handleLogin_compare(p)
  \/ \E p \in Procs, tok \in tokens :
       Protected(p, tok, handleViewAdmins(p, tok))
  \/ \E p \in Procs, tok \in tokens, body \in CreateAdminBodies :
       Protected(p, tok, handleCreateAdmin(p, tok, body))
  \/ \E p \in Procs, tok \in tokens, id \in AdminIds :
       Protected(p, tok, handleSuspendAdmin(p, tok, id))
  \/ \E p \in Procs, tok \in tokens, id \in AdminIds :
       Protected(p, tok, handleUnsuspendAdmin(p, tok, id))
  \/ \E p \in Procs, tok \in tokens, id \in AdminIds :
       Protected(p, tok, handleDeleteAdmin(p, tok, id))
  \/ \E p \in Procs, tok \in tokens, id \in AdminIds, body \in UpdateAdminBodies :
       Protected(p, tok, handleUpdateAdmin(p, tok, id, body))

SpecAdmin == Init /\ [][NextAdmin]_vars

\* the password routes: login and change-password, beside the creation of a
\* second admin
NextPassword ==
  \/ \E p \in Procs, username \in Usernames, password \in Passwords :
       handleLogin(p, username, password)
  \/ \E p \in Procs : handleLogin_compare(p)
  \/ \E p \in Procs, tok \in tokens, body \in ChangePasswordBodies :
       Protected(p, tok, handleChangePassword(p, tok, body))
  \/ \E p \in Procs : handleChangePassword_compare(p)
  \/ \E p \in Procs : handleChangePassword_hash(p)
  \/ \E p \in Procs, tok \in tokens, body \in CreateAdminBodies :
       Protected(p, tok, handleCreateAdmin(p, tok, body))

SpecPassword == InitLoggedIn /\ [][NextPassword]_vars

\* tokens in use while their admins log out, are suspended and are deleted,
\* and the clock
NextToken ==
  \/ \E p \in Procs, username \in Usernames, password \in Passwords :
       handleLogin(p, username, password)
  \/ \E p \in Procs : handleLogin_compare(p)
  \/ \E p \in Procs, tok \in tokens :
       Protected(p, tok, handleLogout(p))
  \/ \E p \in Procs, tok \in tokens :
       Protected(p, tok, handleProfile(p, tok))
  \/ \E p \in Procs, tok \in tokens, body \in CreateAdminBodies :
       Protected(p, tok, handleCreateAdmin(p, tok, body))
  \/ \E p \in Procs, tok \in tokens, id \in AdminIds :
       Protected(p, tok, handleSuspendAdmin(p, tok, id))
  \/ \E p \in Procs, tok \in tokens, id \in AdminIds :
       Protected(p, tok, handleDeleteAdmin(p, tok, id))
  \/ Tick

SpecToken == InitLoggedIn /\ [][NextToken]_vars

\* the customers that are edited
EditCustomerBodies ==
  [id : {UserId(1), UserId(2)}, regId : {<<"a">>, <<"b">>}, name : {<<"n">>},
   contact : {<<"9">>}, status : {Undefined}, membership : {Undefined}]

\* customers added, edited and deleted
NextUpdate ==
  \/ \E p \in Procs, tok \in tokens, body \in EditCustomerBodies :
       Protected(p, tok, addCustomer(p, body))
  \/ \E p \in Procs, tok \in tokens, id \in DocCustomerIds, updates \in EditBodies :
       Protected(p, tok, updateCustomer(p, id, updates))
  \/ \E p \in Procs, tok \in tokens, id \in DocCustomerIds :
       Protected(p, tok, deleteCustomer(p, id))

SpecUpdate == InitLoggedIn /\ [][NextUpdate]_vars

\* the customers the browser is shown: a contact with a space inside
ClientCustomerBodies ==
  [id : {NoId}, regId : {<<"a">>, <<"b">>}, name : {<<"n">>},
   contact : {<<"9", " ", "8">>}, status : {Undefined}, membership : {Undefined}]

\* the browser beside the server: login, logout, loadCustomers and its
\* fetches, customers added and deleted meanwhile, and the clock
NextClient ==
  \/ \E tok \in tokens : login(tok)
  \/ logout
  \/ loadCustomers
  \/ loadCustomers_served
  \/ loadCustomers_resolved
  \/ \E p \in Procs, tok \in tokens, body \in ClientCustomerBodies :
       Protected(p, tok, addCustomer(p, body))
  \/ \E p \in Procs, tok \in tokens :
       Protected(p, tok, clearAllCustomers(p))
  \/ Tick

SpecClient == InitLoggedIn /\ [][NextClient]_vars

\* conversion of leads beside the lead routes that touch the same lead
NextLeads ==
  \/ \E p \in Procs, tok \in tokens, lead \in LeadBodies :
       Protected(p, tok, addLead(p, lead))
  \/ \E p \in Procs, tok \in tokens, id \in IdParams :
       Protected(p, tok, deleteLead(p, id))
  \/ \E p \in Procs, tok \in tokens, id \in IdParams, body \in ConvertBodies :
       Protected(p, tok, convertLead(p, id, body))
  \/ \E p \in Procs : convertLead_patch(p)
  \/ \E p \in Procs : convertLead_leadHistory(p)
  \/ \E p \in Procs : convertLead_customerHistory(p)
  \/ Tick

SpecLeads == InitLoggedIn /\ [][NextLeads]_vars

\* POST /api/customers with every body, and DELETE /api/customers/:id
NextAdd ==
  \/ \E p \in Procs, tok \in tokens, body \in CustomerBodies :
       Protected(p, tok, addCustomer(p, body))
  \/ \E p \in Procs, tok \in tokens, id \in IdParams :
       Protected(p, tok, deleteCustomer(p, id))
  \/ Tick

SpecAdd == InitLoggedIn /\ [][NextAdd]_vars

\* the bulk import with every batch, and DELETE /api/customers/:id
NextBulk ==
  \/ \E p \in Procs, tok \in tokens, rows \in SeqsUpTo(BulkRows, MaxBatch) :
       Protected(p, tok, addCustomers(p, rows))
  \/ \E p \in Procs, tok \in tokens, id \in IdParams :
       Protected(p, tok, deleteCustomer(p, id))

SpecBulk == InitLoggedIn /\ [][NextBulk]_vars

\* routes of every router behind authenticateToken, with any header
SaveCustomer(id, regId) ==
  [id |-> id, regId |-> regId, name |-> <<"x">>, contact |-> <<"1">>,
   status |-> "Active", membership |-> "Silver"]

SaveCustomers ==
  {SaveCustomer(GenId(1), <<"a">>), SaveCustomer(GenId(2), <<"b">>),
   SaveCustomer(GenId(2), <<"a">>)}

NextSave ==
  \/ \E p \in Procs, c \in SaveCustomers : customerDB_addCustomer(p, c)
  \/ \E p \in Procs, id \in {GenId(1), GenId(2)} : customerDB_deleteCustomer(p, id)
  \/ \E p \in Procs : saveDatabase_written(p)

SpecSave == Init /\ [][NextSave]_vars

\* one lead under an id of the client's, its status as the form can send it
PipelineLeadBodies ==
  [id : {UserId(1)}, name : {<<"x">>}, contact : {<<"7">>},
   status : {Undefined, "Qualified", "LOST"}, source : {Undefined},
   priority : {Undefined}, linkedCustomerId : {NoId}]

\* the bodies of PUT /api/leads/:id the status select of the Leads page sends
StatusPatches ==
  [status : {"New", "Contacted", "Converted"}, source : {Keep},
   priority : {Keep}, linkedCustomerId : {KeepId}]

\* the lead routes on one lead
NextPipeline ==
  \/ \E p \in Procs, tok \in tokens, lead \in PipelineLeadBodies :
       Protected(p, tok, addLead(p, lead))
  \/ \E p \in Procs, tok \in tokens, patch \in StatusPatches :
       Protected(p, tok, updateLead(p, UserId(1), patch))
  \/ \E p \in Procs, tok \in tokens :
       Protected(p, tok, deleteLead(p, UserId(1)))
  \/ \E p \in Procs, tok \in tokens :
       Protected(p, tok, convertLead(p, UserId(1), [membership |-> Undefined]))
  \/ \E p \in Procs : convertLead_patch(p)
  \/ \E p \in Procs : convertLead_leadHistory(p)
  \/ \E p \in Procs : convertLead_customerHistory(p)
  \/ Tick

SpecPipeline == InitLoggedIn /\ [][NextPipeline]_vars

\* the customers whose history is asked for: one added through POST
\* /api/customers, one created by convertLead
HistoryCustomerIds == {UserId(1), GenId(1)}

\* the lead that is converted
HistoryLeadBodies == {l \in PipelineLeadBodies : l.status = Undefined}

\* two customers and their history, beside the routes that change and delete
\* customers, and the clock
NextHistory ==
  \/ \E p \in Procs, tok \in tokens, body \in DocCustomerBodies :
       Protected(p, tok, addCustomer(p, body))
  \/ \E p \in Procs, tok \in tokens, id \in HistoryCustomerIds, updates \in UpdateBodies :
       Protected(p, tok, updateCustomer(p, id, updates))
  \/ \E p \in Procs, tok \in tokens, id \in HistoryCustomerIds :
       Protected(p, tok, deleteCustomer(p, id))
  \/ \E p \in Procs, tok \in tokens, ids \in SUBSET HistoryCustomerIds :
       Protected(p, tok, deleteCustomers(p, ids))
  \/ \E p \in Procs, tok \in tokens :
       Protected(p, tok, clearAllCustomers(p))
  \/ \E p \in Procs, tok \in tokens, id \in HistoryCustomerIds, body \in HistoryBodies :
       Protected(p, tok, addCustomerHistory(p, id, body))
  \/ \E p \in Procs, tok \in tokens, id \in HistoryCustomerIds :
       Protected(p, tok, getCustomerHistory(p, id))
  \/ \E p \in Procs, tok \in tokens, lead \in HistoryLeadBodies :
       Protected(p, tok, addLead(p, lead))
  \/ \E p \in Procs, tok \in tokens :
       Protected(p, tok, convertLead(p, UserId(1), [membership |-> Undefined]))
  \/ \E p \in Procs : convertLead_patch(p)
  \/ \E p \in Procs : convertLead_leadHistory(p)
  \/ \E p \in Procs : convertLead_customerHistory(p)
  \/ Tick

SpecHistory == InitLoggedIn /\ [][NextHistory]_vars

\* a customer, its history and its document, beside the routes that delete
\* customers and documents, and the clock
NextCascade ==
  \/ \E p \in Procs, tok \in tokens, body \in DocCustomerBodies :
       Protected(p, tok, addCustomer(p, body))
  \/ \E p \in Procs, tok \in tokens, id \in DocCustomerIds, updates \in UpdateBodies :
       Protected(p, tok, updateCustomer(p, id, updates))
  \/ \E p \in Procs, tok \in tokens, id \in DocCustomerIds :
       Protected(p, tok, deleteCustomer(p, id))
  \/ \E p \in Procs, tok \in tokens, ids \in SUBSET DocCustomerIds :
       Protected(p, tok, deleteCustomers(p, ids))
  \/ \E p \in Procs, tok \in tokens :
       Protected(p, tok, clearAllCustomers(p))
  \/ \E p \in Procs, tok \in tokens, id \in DocCustomerIds, body \in HistoryBodies :
       Protected(p, tok, addCustomerHistory(p, id, body))
  \/ \E p \in Procs, tok \in tokens, id \in DocCustomerIds :
       Protected(p, tok, getCustomerHistory(p, id))
  \/ \E p \in Procs, tok \in tokens, id \in DocCustomerIds :
       Protected(p, tok, uploadCustomerDocument(p, id, TRUE))
  \/ \E p \in Procs : uploadCustomerDocument_write(p)
  \/ \E p \in Procs : uploadCustomerDocument_add(p)
  \/ \E p \in Procs, tok \in tokens, docId \in IdParams :
       Protected(p, tok, deleteCustomerDocument(p, docId))
  \/ Tick

SpecCascade == InitLoggedIn /\ [][NextCascade]_vars

\* values of status, source and priority as a body can carry them: absent,
\* null, empty, blank, known in several cases, padded, unknown
StatusInputs == {Undefined, Null, "", "  ", "Converted", "CONVERTED", " Lost ", "Bogus"}
SourceInputs == {Undefined, Null, "", "  ", "Web", "WEB", " web ", "Fax"}
PriorityInputs == {Undefined, Null, "", "High", " HIGH", "low", "Bogus"}

LeadWith(status, source, priority) ==
  [id |-> UserId(1), name |-> <<"x">>, contact |-> <<"7">>, status |-> status,
   source |-> source, priority |-> priority, linkedCustomerId |-> NoId]

\* bodies of POST /api/leads: every value of one field beside absent others,
\* and one body with three unknown values
NormalizeLeadBodies ==
  {LeadWith(v, Undefined, Undefined) : v \in StatusInputs}
    \cup {LeadWith(Undefined, v, Undefined) : v \in SourceInputs}
    \cup {LeadWith(Undefined, Undefined, v) : v \in PriorityInputs}
    \cup {LeadWith("Bogus", "Fax", "Bogus")}

PatchWith(status, source, priority) ==
  [status |-> status, source |-> source, priority |-> priority,
   linkedCustomerId |-> KeepId]

\* bodies of PUT /api/leads/:id: a JSON body carries a key with a value or
\* null, or does not carry it
NormalizePatches ==
  {PatchWith(v, Keep, Keep) : v \in StatusInputs \ {Undefined}}
    \cup {PatchWith(Keep, v, Keep) : v \in SourceInputs \ {Undefined}}
    \cup {PatchWith(Keep, Keep, v) : v \in PriorityInputs \ {Undefined}}
    \cup {PatchWith("CONVERTED", " web ", "low")}

\* leadDB.add and leadDB.patch with every value
NextNormalize ==
  \/ \E p \in Procs, tok \in tokens, lead \in NormalizeLeadBodies :
       Protected(p, tok, addLead(p, lead))
  \/ \E p \in Procs, tok \in tokens, patch \in NormalizePatches :
       Protected(p, tok, updateLead(p, UserId(1), patch))
  \/ \E p \in Procs, tok \in tokens :
       Protected(p, tok, deleteLead(p, UserId(1)))
  \/ Tick

SpecNormalize == InitLoggedIn /\ [][NextNormalize]_vars

\* the salesmanId of a customer: absent, three salesmen, one padded, and the
\* word itself in lower case
SalesmanIds ==
  {Absent, <<"A">>, <<"B">>, <<"C">>, <<" ", "A">>,
   <<"u", "n", "a", "s", "s", "i", "g", "n", "e", "d">>}

\* the customers the page was given: up to MaxCustomers rows, of which the
\* page reads the salesmanId
InitSalesmen ==
  /\ \E n \in 0..MaxCustomers :
       \E f \in [1..n -> SalesmanIds] :
         customers = {[id |-> GenId(i), salesmanId |-> f[i]] : i \in 1..n}
  /\ documents = {}
  /\ customer_history = {}
  /\ leads = {}
  /\ lead_history = {}
  /\ admins = {DefaultAdmin}
  /\ adminSeq = 1
  /\ tokens = {generateToken(DefaultAdmin, 0)}
  /\ hdr = NoToken
  /\ file = dbExport(customers, {}, {})
  /\ client = NoClient
  /\ req = [p \in Procs |-> Idle]
  /\ last = Internal("none", "")
  /\ now = 0
  /\ nextId = 1

NextSalesmen == SalesmenPage

SpecSalesmen == InitSalesmen /\ [][NextSalesmen]_vars

\* public and protected /api routes, as any client can call them
NextApi ==
  \/ \E p \in Procs : ping(p)
  \/ \E p \in Procs, u \in Usernames, pw \in Passwords : handleLogin(p, u, pw)
  \/ \E p \in Procs : handleLogin_compare(p)
  \/ \E p \in Procs, tok \in ClientTokens, body \in DocCustomerBodies :
       Protected(p, tok, addCustomer(p, body))
  \/ \E p \in Procs, tok \in ClientTokens, id \in DocCustomerIds :
       Protected(p, tok, deleteCustomer(p, id))
  \/ \E p \in Procs, tok \in ClientTokens, rows \in SeqsUpTo(FewBulkRows, MaxBatch) :
       Protected(p, tok, addCustomers(p, rows))
  \/ \E p \in Procs, tok \in ClientTokens, id \in AdminIds :
       Protected(p, tok, handleSuspendAdmin(p, tok, id))

SpecApi == Init /\ [][NextApi]_vars

NextGate ==
  \/ \E p \in Procs, tok \in ClientTokens, body \in DocCustomerBodies :
       Protected(p, tok, addCustomer(p, body))
  \/ \E p \in Procs, tok \in ClientTokens, id \in DocCustomerIds :
       Protected(p, tok, deleteCustomer(p, id))
  \/ \E p \in Procs, tok \in ClientTokens, id \in DocCustomerIds :
       Protected(p, tok, uploadCustomerDocument(p, id, TRUE))
  \/ \E p \in Procs : uploadCustomerDocument_write(p)
  \/ \E p \in Procs : uploadCustomerDocument_add(p)
  \/ \E p \in Procs, tok \in ClientTokens, lead \in FewLeadBodies :
       Protected(p, tok, addLead(p, lead))
  \/ \E p \in Procs, tok \in ClientTokens, id \in IdParams :
       Protected(p, tok, deleteLead(p, id))
  \/ \E p \in Procs, tok \in ClientTokens :
       Protected(p, tok, handleViewAdmins(p, tok))
  \/ Tick

SpecGate == InitLoggedIn /\ [][NextGate]_vars

----------------------------------------------------------------------------
(* Properties *)

\* C1: in every state reachable by addCustomer, addCustomers, updateCustomer,
\* convertLead, deleteCustomer, deleteCustomers and clearAllCustomers, in any
\* interleaving, no two customer rows have the same regId.
C1_UniqueRegId ==
  \A c1 \in customers : \A c2 \in customers : c1.regId = c2.regId => c1 = c2

\* two customers are stored and a padded duplicate regId has just been refused
\* by the table
C1_Witness ==
  /\ Cardinality(customers) >= 2
  /\ last.op = "addCustomer"
  /\ last.status = 500

\* C2: in every reachable state each customer has at most one document row,
\* also when two uploads for one customer interleave at their awaits.
C2_OneDocument ==
  \A d1 \in documents : \A d2 \in documents :
    d1.customerId = d2.customerId => d1 = d2

\* the two uploads of the race have both been answered 201
C2_Raced ==
  \E d1 \in documents : \E d2 \in documents :
    d1 # d2 /\ d1.customerId = d2.customerId

AdminOps ==
  {"handleViewAdmins", "handleCreateAdmin", "handleSuspendAdmin",
   "handleUnsuspendAdmin", "handleDeleteAdmin", "handleUpdateAdmin"}

\* C3: a request whose token carries a role other than 'central' is answered
\* 403 by each admin-management handler, and the admins table is unchanged.
C3_RoleGate ==
  [][(last'.op \in AdminOps /\ last'.role # "central")
       => (last'.status = 403 /\ admins' = admins)]_vars

\* an admin of role 'admin' holds a valid token and has been refused a delete
C3_Witness ==
  /\ last.op = "handleDeleteAdmin"
  /\ last.role = "admin"
  /\ last.status = 403
  /\ hdr \in tokens

\* the row the :id of the answered request names is a central admin
TargetCentral(r) == \E a \in admins : a.id = r.target /\ a.role = "central"

CentralActive == \A a \in admins : a.role = "central" => a.status # "suspended"

CentralKept ==
  \A a \in admins : a.role = "central" =>
    \E b \in admins' : b.id = a.id /\ b.role = "central"

C6_Converted ==
  [][\A p \in Procs :
       (/\ req[p].op = "convertLead"
        /\ req[p].pc = "customerHistory"
        /\ req'[p] = Idle
        /\ last'.status = 201)
         => LET l == req[p].l IN
            /\ \E c \in customers' : c.id = l.customerId /\ c.regId = l.regId
            /\ \E h \in lead_history' : h.leadId = l.id
            /\ \E h \in customer_history' : h.customerId = l.customerId
            /\ \E x \in leads' : /\ x.id = l.id
                                 /\ x.status = "Converted"
                                 /\ x.linkedCustomerId = l.customerId]_vars

\* the protected request of a step: not the clock, not the continuation of a
\* handler in flight
GateStep ==
  /\ now' = now
  /\ \A p \in Procs : req[p] # Idle => req'[p] = req[p]

\* C7: on a route behind authenticateToken the handler runs only if the
\* request's token verifies; without a token the answer is 401, with an
\* invalid or expired one 403, and then no table changes.
C7_Gate ==
  [][GateStep =>
       /\ hdr'.kind = "none" =>
            /\ last' = Response("authenticateToken", 401, FALSE, "Access token required")
            /\ req' = req
            /\ UNCHANGED dbvars
       /\ (hdr'.kind # "none" /\ ~(hdr' \in tokens /\ now < hdr'.exp)) =>
            /\ last' = Response("authenticateToken", 403, FALSE, "Invalid or expired token")
            /\ req' = req
            /\ UNCHANGED dbvars
       /\ (last'.op # "authenticateToken" \/ req' # req) =>
            (hdr' \in tokens /\ now < hdr'.exp)]_vars

\* a token the server signed has expired and has been refused
C7_Witness ==
  /\ hdr \in tokens
  /\ last = Response("authenticateToken", 403, FALSE, "Invalid or expired token")
  /\ customers # {}

\* C8: POST /api/customers with the required fields whose trimmed regId is
\* that of an existing customer is answered 409 and the table is unchanged.
C8_Duplicate409 ==
  [][\A p \in Procs : \A tok \in tokens : \A body \in CustomerBodies :
       (/\ authenticateToken(tok, now).status = 0
        /\ body.regId # Absent /\ body.name # Absent /\ body.contact # Absent
        /\ \E c \in customers : c.regId = Trim(body.regId)
        /\ Protected(p, tok, addCustomer(p, body)))
         => (last'.status = 409 /\ customers' = customers)]_vars

\* C9: an upload adds its row and answers 201 only for a customer without a
\* document, and once deleteCustomerDocument has removed a customer's
\* document the customer has none, so that the next upload is accepted.
C9_UntilDelete ==
  [][/\ \A p \in Procs :
          (/\ req[p].op = "uploadCustomerDocument"
           /\ req[p].pc = "writeFile"
           /\ req'[p] = Idle)
            => listDocuments(req[p].l.id) = {}
     /\ \A d \in documents :
          d \notin documents' =>
            {e \in documents' : e.customerId = d.customerId} = {}]_vars

Complete(r) == r.regId # Absent /\ r.name # Absent /\ r.contact # Absent

\* row i of the batch carries a regId no stored customer and no earlier row has
FreshRegId(rows, i) ==
  /\ Complete(rows[i])
  /\ \A c \in customers : c.regId # Trim(rows[i].regId)
  /\ \A j \in 1..(i - 1) :
       Complete(rows[j]) => Trim(rows[j].regId) # Trim(rows[i].regId)

\* and an id of its own, and a status and a membership the table accepts
FreshRow(rows, i) ==
  /\ FreshRegId(rows, i)
  /\ rows[i].id # NoId =>
       /\ \A c \in customers : c.id # rows[i].id
       /\ \A j \in 1..(i - 1) : rows[j].id # rows[i].id
  /\ rows[i].status \in {Undefined, "Active", "Inactive"}
  /\ rows[i].membership \in {Undefined, "Gold", "Silver", "Platinum"}

Inserted(rows, i) ==
  \E c \in customers' \ customers :
    /\ c.regId = Trim(rows[i].regId)
    /\ c.name = Trim(rows[i].name)
    /\ c.contact = Trim(rows[i].contact)

\* the bulk request of a step, accepted by the middleware
BulkStep(p, tok, rows) ==
  /\ Len(rows) >= 1
  /\ authenticateToken(tok, now).status = 0
  /\ Protected(p, tok, addCustomers(p, rows))

----------------------------------------------------------------------------
\* C11: once every customerDB mutation that was started has completed, the
\* database file holds exactly the in-memory database.
C11_FileIsMemory ==
  (\A p \in Procs : req[p] = Idle)
    => file = dbExport(customers, documents, customer_history)

----------------------------------------------------------------------------
\* C12: every response of an /api route is a JSON envelope with a boolean
\* success field, false when the status is 400 or more and true when it is 2xx.
C12_Envelope ==
  last.op # "none" =>
    /\ "success" \in DOMAIN last
    /\ last.success \in BOOLEAN
    /\ last.status >= 400 => last.success = FALSE
    /\ last.status \in 200..299 => last.success = TRUE

----------------------------------------------------------------------------
\* the INSERT of POST /api/customers throws
addCustomerThrows(body) ==
  /\ Complete(body)
  /\ getCustomerByRegId(body.regId) = {}
  /\ ~customersConstraints(customers, Normalized(body, GenId(nextId)))

\* the UPDATE of PUT /api/customers/:id throws
updateCustomerThrows(id, updates) ==
  \E old \in getCustomerById(id) :
    OrDefault(updates.status, old.status) \notin {"Active", "Inactive"}

\* an INSERT of the bulk import throws
addCustomersThrows(rows) ==
  /\ Len(rows) >= 1
  /\ LET v == ValidateRows(rows, 1, nextId) IN
       /\ Len(v.valid) >= 1
       /\ InsertRows(customers, v.valid, 1).errors >= 1

\* C13: a request during which a database statement throws is answered with
\* status 500, never with a 2xx status.
C13_Always500 ==
  [][\A p \in Procs : \A tok \in tokens :
       authenticateToken(tok, now).status = 0 =>
         /\ \A body \in FewCustomerBodies :
              Protected(p, tok, addCustomer(p, body)) /\ addCustomerThrows(body)
                => last'.status = 500
         /\ \A id \in IdParams : \A updates \in UpdateBodies :
              Protected(p, tok, updateCustomer(p, id, updates))
                /\ updateCustomerThrows(id, updates)
                => last'.status = 500
         /\ \A rows \in SeqsUpTo(FewBulkRows, MaxBatch) :
              Protected(p, tok, addCustomers(p, rows)) /\ addCustomersThrows(rows)
                => last'.status = 500]_vars

----------------------------------------------------------------------------
\* the row verifyAdmin read for the login of slot p carries the password given
LoginMatches(p) == bcryptCompare(req[p].l.password, req[p].l.admin.password)

----------------------------------------------------------------------------
AssignedRows == {r \in last.rows : ~isUnassignedId(r.id)}

RECURSIVE SumShown(_)
SumShown(rows) ==
  IF rows = {} THEN 0
  ELSE LET r == CHOOSE x \in rows : TRUE IN
         r.performance.hundredths + SumShown(rows \ {r})

Rendered == last.op = "SalesmenPage"

----------------------------------------------------------------------------
\* the conversion of slot p has inserted its customer, which is still there
\* after the step, and the step answers 500 'Conversion failed'
ConversionFailed(p) ==
  /\ last' = Response("convertLead", 500, FALSE, "Conversion failed")
  /\ req'[p] = Idle
  /\ \E c \in customers' : c.id = req[p].l.customerId
  /\ UNCHANGED <<customers, leads, lead_history, customer_history>>

\* C16: a conversion whose leadDB.patch fails (the lead is gone) or whose
\* leadDB.addHistory fails (its id is taken) after the customer was inserted
\* answers 500 'Conversion failed' and rolls nothing back: the customer stays.
C16_FailureIs500 ==
  [][\A p \in Procs :
       /\ convertLead_patch(p) /\ (\A x \in leads : x.id # req[p].l.id)
            => ConversionFailed(p)
       /\ convertLead_leadHistory(p)
            /\ leadHistoryClash(leadHistoryRow(req[p].l.id, now))
            => ConversionFailed(p)]_vars

----------------------------------------------------------------------------
\* C17: a convertLead request for a lead whose status is already 'Converted'
\* creates no further customer, so that a lead yields at most one customer.
C17_ConvertedOnce ==
  [][\A p \in Procs : \A tok \in tokens :
       Protected(p, tok, convertLead(p, UserId(1), [membership |-> Undefined]))
         /\ (\E l \in leads : l.id = UserId(1) /\ l.status = "Converted")
         => customers' = customers]_vars

\* C18: a lead has a linkedCustomerId if and only if its status is 'Converted'.
C18_LinkedIffConverted ==
  \A l \in leads : (l.linkedCustomerId # NoId) <=> (l.status = "Converted")

\* the place of a status in the pipeline
Stage(status) ==
  CASE status = "New" -> 1
    [] status = "Contacted" -> 2
    [] status = "Qualified" -> 3
    [] status \in {"Converted", "Lost"} -> 4

\* C19: the status of a lead never moves to an earlier stage, and never leaves
\* 'Converted' or 'Lost'.
C19_ForwardOnly ==
  [][\A l \in leads : \A m \in leads' :
       l.id = m.id /\ l.status # m.status =>
         /\ Stage(l.status) < Stage(m.status)
         /\ l.status \notin {"Converted", "Lost"}]_vars

----------------------------------------------------------------------------
\* what the claim expects to be stored for a value
ExpectStatus(v) ==
  CASE v \in {"Converted", "CONVERTED"} -> "Converted"
    [] v \in {"Lost", " Lost "} -> "Lost"
    [] v \in {"Contacted", "Qualified"} -> v
    [] OTHER -> "New"

ExpectSource(v) ==
  CASE v \in {Undefined, Null, ""} -> Null
    [] v \in {"Web", "WEB", " web "} -> "Web"
    [] v \in {"Call", "WhatsApp"} -> v
    [] OTHER -> "Other"

ExpectPriority(v) ==
  CASE v \in {"High", " HIGH"} -> "High"
    [] v \in {"Low", "low"} -> "Low"
    [] OTHER -> "Medium"

\* the same word in another case
CaseVariants ==
  {<<"Converted", "CONVERTED">>, <<"Web", "WEB">>, <<"High", " HIGH">>,
   <<"Low", "low">>, <<"Lost", " Lost ">>, <<" web ", "WEB">>}

StoredInLists ==
  \A l \in leads :
    /\ l.status \in {"New", "Contacted", "Qualified", "Converted", "Lost"}
    /\ l.source \in {"Web", "Call", "WhatsApp", "Other", Null}
    /\ l.priority \in {"Low", "Medium", "High"}

Idempotent ==
  /\ \A v \in StatusInputs :
       normalizeLeadStatus(normalizeLeadStatus(v)) = normalizeLeadStatus(v)
  /\ \A v \in SourceInputs :
       normalizeLeadSource(normalizeLeadSource(v)) = normalizeLeadSource(v)
  /\ \A v \in PriorityInputs :
       normalizeLeadPriority(normalizeLeadPriority(v)) = normalizeLeadPriority(v)

CaseInsensitive ==
  \A vw \in CaseVariants :
    /\ normalizeLeadStatus(vw[1]) = normalizeLeadStatus(vw[2])
    /\ normalizeLeadSource(vw[1]) = normalizeLeadSource(vw[2])
    /\ normalizeLeadPriority(vw[1]) = normalizeLeadPriority(vw[2])

\* C20: whatever status, source and priority leadDB.add and leadDB.patch are
\* given, the stored lead has a status of LEAD_STATUSES (unknown or empty:
\* New), a source of LEAD_SOURCES or null (unknown and not empty: Other) and a
\* priority of LEAD_PRIORITIES (unknown or empty: Medium); a value a patch
\* does not carry stays as stored; the normalizers are idempotent and
\* case-insensitive.
C20_Normalized ==
  /\ [](StoredInLists /\ Idempotent /\ CaseInsensitive)
  /\ [][\A p \in Procs : \A tok \in tokens :
          authenticateToken(tok, now).status = 0 =>
            /\ \A lead \in NormalizeLeadBodies :
                 Protected(p, tok, addLead(p, lead)) /\ leads = {} =>
                   /\ last'.status = 201
                   /\ \E m \in leads' :
                        /\ m.status = ExpectStatus(lead.status)
                        /\ m.source = ExpectSource(lead.source)
                        /\ m.priority = ExpectPriority(lead.priority)
            /\ \A patch \in NormalizePatches :
                 Protected(p, tok, updateLead(p, UserId(1), patch)) =>
                   \A l \in leads : \E m \in leads' :
                     /\ last'.status = 200
                     /\ m.status = IF patch.status = Keep THEN l.status
                                   ELSE ExpectStatus(patch.status)
                     /\ m.source = IF patch.source = Keep THEN l.source
                                   ELSE ExpectSource(patch.source)
                     /\ m.priority = IF patch.priority = Keep THEN l.priority
                                     ELSE ExpectPriority(patch.priority)]_vars

\* a lead stored from an unknown source and a padded status, then patched
C20_Witness ==
  /\ last.op = "updateLead"
  /\ last.status = 200
  /\ \E l \in leads : l.source = "Other" /\ l.status = "Lost" /\ l.priority = "Low"


\* the customer of id is in table customers
CustomerExists(tbl, id) == \E c \in tbl : c.id = id

\* the entry getHistory returns for row h
Returned(data, h) ==
  \E e \in data : /\ e.id = h.id
                  /\ e.customerId = h.customerId
                  /\ e.action = h.action
                  /\ e.createdAt = h.created_at
                  /\ (h.note # Null => e.note = h.note)

\* C21: customer history is append-only.  No step changes a field of an
\* entry of customer_history or removes the entry while its customer is in
\* table customers, and every getCustomerHistory of a customer returns all
\* the entries added for that customer so far.
C21_AppendOnly ==
  [][/\ \A h \in customer_history :
          CustomerExists(customers', h.customerId) => h \in customer_history'
     /\ \A p \in Procs, tok \in tokens, id \in HistoryCustomerIds :
          Protected(p, tok, getCustomerHistory(p, id)) /\ last'.op = "getCustomerHistory"
            => \A h \in customer_history :
                 h.customerId = id => Returned(last'.data, h)]_vars

\* a getCustomerHistory of an existing customer returned two entries, the
\* one convertLead wrote and one addCustomerHistory wrote
C21_Witness ==
  /\ last.op = "getCustomerHistory"
  /\ CustomerExists(customers, last.customerId)
  /\ \E e1, e2 \in last.data : e1.action = "Created from Lead" /\ e2.action = "Call"


----------------------------------------------------------------------------
\* an accepted DELETE /api/customers/:id, DELETE /api/customers or
\* DELETE /api/customers/all/clear takes its step
DeleteStep ==
  \E p \in Procs, tok \in tokens :
    /\ authenticateToken(tok, now).status = 0
    /\ \/ \E id \in DocCustomerIds : Protected(p, tok, deleteCustomer(p, id))
       \/ \E ids \in SUBSET DocCustomerIds : Protected(p, tok, deleteCustomers(p, ids))
       \/ Protected(p, tok, clearAllCustomers(p))

\* C22: deleting customers cascades.  When deleteCustomer, deleteCustomers or
\* clearAllCustomers has answered 200, no row of documents and no row of
\* customer_history that referenced a customer before the delete references
\* an id that is absent from table customers after it.
C22_Cascade ==
  [][DeleteStep /\ last'.status = 200
       => /\ \A d \in documents' :
               CustomerExists(customers, d.customerId)
                 => CustomerExists(customers', d.customerId)
          /\ \A h \in customer_history' :
               CustomerExists(customers, h.customerId)
                 => CustomerExists(customers', h.customerId)]_vars

----------------------------------------------------------------------------
\* C23: a delete-by-id request for an id that does not exist responds 404.
\* DELETE /api/customers/:id of an id no customer has answers 404 'Customer
\* not found', DELETE of a document id no document has answers 404 'Document
\* not found', and both leave the database unchanged.
C23_Unknown404 ==
  [][\A p \in Procs : \A tok \in tokens :
       authenticateToken(tok, now).status = 0 =>
         /\ \A id \in DocCustomerIds :
              Protected(p, tok, deleteCustomer(p, id)) /\ ~CustomerExists(customers, id)
                => /\ last'.status = 404
                   /\ last'.msg = "Customer not found"
                   /\ UNCHANGED dbvars
         /\ \A docId \in IdParams :
              Protected(p, tok, deleteCustomerDocument(p, docId))
                /\ docId \notin {d.id : d \in documents}
                => /\ last'.status = 404
                   /\ last'.msg = "Document not found"
                   /\ UNCHANGED dbvars]_vars


----------------------------------------------------------------------------
\* the step changes the password hash of the admin row a
HashChanged(a) == \E b \in admins' : b.id = a.id /\ b.password # a.password

\* C24: handleChangePassword changes an admin's password hash only when the
\* request supplies that admin's correct current password and a non-empty
\* new password, and only for the admin named in the caller's token; a
\* request it answers with 400 or 401 leaves every hash as it was.
C24_OnlyWithCurrentPassword ==
  [][\A p \in Procs :
       /\ handleChangePassword_hash(p)
            => \A a \in admins :
                 HashChanged(a)
                   => /\ bcryptCompare(req[p].l.currentPassword, a.password)
                      /\ ~Falsy(req[p].l.newPassword)
                      /\ a.username = req[p].l.who.username
       /\ \/ handleChangePassword_compare(p)
          \/ \E tok \in tokens, body \in ChangePasswordBodies :
               Protected(p, tok, handleChangePassword(p, tok, body))
          => (last'.op = "handleChangePassword" /\ last'.status \in {400, 401}
                => UNCHANGED admins)]_vars


----------------------------------------------------------------------------
\* C25: the client clears customers on logout.  Whenever the token of
\* AuthProvider is null the customers list of CustomerProvider is empty,
\* also when a loadCustomers fetch that started before the logout resolves
\* after it.
C25_EmptyWhenLoggedOut ==
  client.token = NoToken => client.customers = {}


----------------------------------------------------------------------------
\* C26: updateCustomer never changes a customer's id or regId.  After a PUT
\* /api/customers/:id, whatever regId its body carries, table customers
\* holds the same ids with the same regIds as before; a PUT of an id no
\* customer has answers 404 and changes nothing.
C26_IdAndRegIdKept ==
  [][\A p \in Procs : \A tok \in tokens :
       \A id \in DocCustomerIds : \A updates \in EditBodies :
         Protected(p, tok, updateCustomer(p, id, updates))
           /\ authenticateToken(tok, now).status = 0
           => /\ {[id |-> c.id, regId |-> c.regId] : c \in customers'}
                 = {[id |-> c.id, regId |-> c.regId] : c \in customers}
              /\ Cardinality(customers') = Cardinality(customers)
              /\ ~CustomerExists(customers, id)
                   => last'.status = 404 /\ UNCHANGED dbvars]_vars

\* the customer of regId a has been renamed and set Inactive by PUTs, whose
\* bodies all carry another regId, while the customer of regId b exists
C26_Witness ==
  /\ last.op = "updateCustomer"
  /\ last.status = 200
  /\ \E c \in customers : c.regId = <<"a">> /\ c.name = <<"m">> /\ c.status = "Inactive"
  /\ \E c \in customers : c.regId = <<"b">>


----------------------------------------------------------------------------
\* C27: request authorization depends only on the token.  A request that
\* carries a token issued at login, before the token expires, passes
\* authenticateToken and reaches its handler as the admin and with the role
\* the token was issued with, whatever has happened to that admin's row and
\* whether or not the admin has logged out.
C27_TokenOnly ==
  [][\A p \in Procs : \A tok \in tokens :
       now < tok.exp =>
         /\ Protected(p, tok, handleProfile(p, tok))
              => /\ last'.op = "handleProfile"
                 /\ last'.status = 200
                 /\ last'.admin.id = tok.id
                 /\ last'.admin.role = tok.role
         /\ Protected(p, tok, handleLogout(p))
              => last'.op = "handleLogout" /\ last'.status = 200]_vars

\* the profile request of an admin whose row has been deleted was answered
\* with the role the token carries
C27_Witness ==
  /\ last.op = "handleProfile"
  /\ last.status = 200
  /\ last.admin.role = "admin"
  /\ hdr \in tokens
  /\ ~\E a \in admins : a.id = last.admin.id

============================================================================
